---- MODULE Spec2Model ----
(***************************************************************************)
(* Gyoto::Astrobj::Generic (lib/Astrobj.C): the radiative-transfer         *)
(* dispatch between emission(), transmission() and the two radiativeQ(),   *)
(* and the accumulation of quantities in processHitQuantities().           *)
(***************************************************************************)
EXTENDS Integers, Sequences, FiniteSets, TLC

VARIABLES obj, call, ph, data, hit

vars == <<obj, call, ph, data, hit>>

(***************************************************************************)
(* Bounds of the model.                                                    *)
(***************************************************************************)
\* largest number of frequencies handed to a vector primitive / of channels
MaxNu == 2
\* nesting depth after which a chain of calls is reported as not returning
MaxCallDepth == 12
\* number of hits accumulated on one Output Record between two init
MaxHits == 2
\* number of refinements after which integrateEmission is reported as stuck
MaxRefine == 3
\* frames a thread's chain of calls may nest to
MaxStack == 8
\* primitive calls a thread makes
MaxThreadCalls == 1

(***************************************************************************)
(* double values.  A double is a record: an exact rational n/d ("rat"),    *)
(* -log(n/d) ("neglog"), exp(-n/d) ("expneg"), exp(log(n/d)) ("explog"),   *)
(* or an infinity ("ninf", "pinf").  DBL_MAX is its own kind ("dblmax").   *)
(***************************************************************************)
RECURSIVE GCD(_, _)
GCD(a, b) == IF b = 0 THEN a ELSE GCD(b, a % b)

Abs(n) == IF n < 0 THEN -n ELSE n

Rat(n, d) ==
  LET s == IF d < 0 THEN -1 ELSE 1
      g == GCD(Abs(n), Abs(d))
  IN  [k |-> "rat", n |-> (s * n) \div g, d |-> (s * d) \div g]

Zero == Rat(0, 1)
One == Rat(1, 1)
NegInf == [k |-> "ninf", n |-> 0, d |-> 1]
PosInf == [k |-> "pinf", n |-> 0, d |-> 1]
DBL_MAX == [k |-> "dblmax", n |-> 0, d |-> 1]

NaN == [k |-> "nan", n |-> 0, d |-> 1]
IsRat(x) == x.k = "rat"
IsInf(x) == x.k \in {"pinf", "ninf"}
Sign(x) ==
  CASE x.k = "pinf" -> 1
    [] x.k = "ninf" -> -1
    [] OTHER -> IF x.n > 0 THEN 1 ELSE IF x.n < 0 THEN -1 ELSE 0

\* the product of two fractions, g1 and g2 being what cancels crosswise
MulReduced(x, y, g1, g2) ==
  Rat((x.n \div g1) * (y.n \div g2), (x.d \div g2) * (y.d \div g1))

Mul(x, y) ==
  IF IsRat(x) /\ IsRat(y)
  THEN MulReduced(x, y, GCD(Abs(x.n), y.d), GCD(Abs(y.n), x.d))
  ELSE IF (IsRat(x) \/ IsInf(x)) /\ (IsRat(y) \/ IsInf(y))
          /\ Sign(x) * Sign(y) # 0
  THEN (IF Sign(x) * Sign(y) > 0 THEN PosInf ELSE NegInf)
  ELSE NaN
\* the sum of two fractions, g being what their denominators share
AddReduced(x, y, g) ==
  Rat(x.n * (y.d \div g) + y.n * (x.d \div g), (x.d \div g) * y.d)

Add(x, y) ==
  IF IsRat(x) /\ IsRat(y) THEN AddReduced(x, y, GCD(x.d, y.d))
  ELSE IF IsInf(x) /\ (IsRat(y) \/ y = x) THEN x
  ELSE IF IsInf(y) /\ IsRat(x) THEN y
  ELSE NaN
Neg(x) ==
  CASE x.k = "rat" -> Rat(-x.n, x.d)
    [] x.k = "pinf" -> NegInf
    [] x.k = "ninf" -> PosInf
    [] OTHER -> NaN
Sub(x, y) == Add(x, Neg(y))
Inv(x) ==
  CASE x.k = "rat" /\ x.n # 0 -> Rat(x.d, x.n)
    [] x.k = "rat" /\ x.n = 0 -> PosInf
    [] IsInf(x) -> Zero
    [] OTHER -> NaN
Lt(x, y) ==
  CASE IsRat(x) /\ IsRat(y) -> x.n * y.d < y.n * x.d
    [] x.k = "ninf" -> IsRat(y) \/ y.k = "pinf"
    [] y.k = "pinf" -> IsRat(x)
    [] OTHER -> FALSE
Fabs(x) ==
  CASE x.k = "rat" -> Rat(Abs(x.n), x.d)
    [] IsInf(x) -> PosInf
    [] OTHER -> NaN

\* exp(-x), as radiativeQ computes Taunu from alphaInu; exp(log(t)) is t
ExpNeg(x) ==
  CASE x.k = "rat" /\ x.n = 0 -> One
    [] x.k = "rat" /\ x.n # 0 -> [k |-> "expneg", n |-> x.n, d |-> x.d]
    [] x.k = "neglog" -> Rat(x.n, x.d)
    [] x.k = "pinf" -> Zero
    [] x.k = "ninf" -> PosInf
    [] OTHER -> NaN

\* -log(x), as the polarized radiativeQ computes alphaInu from Taunu
NegLog(x) ==
  CASE x.k = "rat" /\ x.n = x.d -> Zero
    [] x.k = "rat" /\ x.n > 0 /\ x.n # x.d ->
         [k |-> "neglog", n |-> x.n, d |-> x.d]
    [] x.k = "rat" /\ x.n = 0 -> PosInf
    [] x.k = "expneg" -> Rat(x.n, x.d)
    [] x.k = "pinf" -> NegInf
    [] OTHER -> NaN

\* x < 0.1 ; exp(-a) < 0.1 iff a > ln(10), 2.302585 < ln(10) < 2.302586
LtTenth(x) ==
  CASE x.k = "rat" -> Lt(x, Rat(1, 10))
    [] x.k = "expneg" -> Lt(Rat(2302585, 1000000), Rat(x.n, x.d))
    [] x.k = "ninf" -> TRUE
    [] OTHER -> FALSE

(***************************************************************************)
(* __defaultfeatures: the three bits and the tests on them.                *)
(***************************************************************************)
default_radiativeQ_polar == 1
default_radiativeQ == 2
default_emission_vector == 4

Has(bits, b) == (bits \div b) % 2 = 1
BitOr(bits, b) == IF Has(bits, b) THEN bits ELSE bits + b

Prims == {"transmission", "emission", "emission_vector",
          "radiativeQ", "radiativeQ_polar"}

(***************************************************************************)
(* The primitives a concrete type provides itself.  They are leaves: they  *)
(* read their arguments only and leave __defaultfeatures alone.  Each      *)
(* returns values no other primitive returns for the same arguments.       *)
(***************************************************************************)
Fill(n, v) == [i \in 1..n |-> v]
Max(a, b) == IF a < b THEN b ELSE a

UserTransmission(nu, dsem) == Inv(Add(One, Mul(Rat(10, 1), nu)))
UserEmission(nu, dsem) == Mul(Add(Rat(10, 1), nu), dsem)
UserEmissionVectorI(nu, dsem) == Mul(Add(Rat(20, 1), nu), dsem)
UserRadiativeQI(nu, dsem) == Mul(Add(Rat(30, 1), nu), dsem)
UserRadiativeQTau(nu, dsem) == Inv(Add(One, nu))
UserPolarI(nu, dsem) == Mul(Add(Rat(40, 1), nu), dsem)
UserPolarQ(nu, dsem) == Mul(Add(Rat(50, 1), nu), dsem)
UserPolarU(nu, dsem) == Mul(Add(Rat(60, 1), nu), dsem)
UserPolarV(nu, dsem) == Mul(Add(Rat(70, 1), nu), dsem)
UserPolarAlphaI(nu, dsem) == NegLog(Inv(Add(Rat(2, 1), nu)))
UserPolarAlphaQ(nu, dsem) == Mul(Rat(1, 3), nu)
UserPolarAlphaU(nu, dsem) == Mul(Rat(1, 5), nu)
UserPolarAlphaV(nu, dsem) == Mul(Rat(1, 7), nu)
UserPolarRQ(nu, dsem) == Mul(Rat(1, 11), nu)
UserPolarRU(nu, dsem) == Mul(Rat(1, 13), nu)
UserPolarRV(nu, dsem) == Mul(Rat(1, 17), nu)

(***************************************************************************)
(* Scratch arrays: new counts the new double[...] a call made, del its     *)
(* delete [], the calls it made included; bal tells whether each default   *)
(* body that returned on the way had released what it had allocated.       *)
(***************************************************************************)
NoHeap == [new |-> 0, del |-> 0, bal |-> TRUE]

\* two calls made one after the other
HeapJoin(a, b) ==
  [new |-> a.new + b.new, del |-> a.del + b.del, bal |-> a.bal /\ b.bal]

\* the arrays the default body of from allocates in the branch calling to
ScratchNew(from, to) ==
  CASE from = "emission_vector" /\ to = "radiativeQ" -> 1
    [] from = "emission_vector" /\ to = "radiativeQ_polar" -> 11
    [] from = "radiativeQ" /\ to = "radiativeQ_polar" -> 10
    [] from = "radiativeQ_polar" /\ to = "radiativeQ" -> 1
    [] OTHER -> 0

\* a slip: the polarized default keeps its Taunu
ScratchDeleted_kept(from, to) ==
  CASE from = "emission_vector" /\ to = "radiativeQ" -> 1
    [] from = "emission_vector" /\ to = "radiativeQ_polar" -> 11
    [] from = "radiativeQ" /\ to = "radiativeQ_polar" -> 10
    [] OTHER -> 0

\* the arrays it releases before it returns from that branch
ScratchDeleted(from, to) ==
  CASE from = "emission_vector" /\ to = "radiativeQ" -> 1
    [] from = "emission_vector" /\ to = "radiativeQ_polar" -> 11
    [] from = "radiativeQ" /\ to = "radiativeQ_polar" -> 10
    [] from = "radiativeQ_polar" /\ to = "radiativeQ" -> 1
    [] OTHER -> 0

\* the heap account of the default body of from when it returns, h being
\* that of the calls it made
HeapAfter(h, from, to) ==
  [new |-> h.new + ScratchNew(from, to),
   del |-> h.del + ScratchDeleted(from, to),
   bal |-> h.bal /\ ScratchNew(from, to) = ScratchDeleted(from, to)]

UserEmissionVector(bits, nus, dsem) ==
  [bits |-> bits, ok |-> TRUE, depth |-> 1, tr |-> {}, heap |-> NoHeap,
   I |-> [i \in 1..Len(nus) |-> UserEmissionVectorI(nus[i], dsem)]]

UserRadiativeQ(bits, nus, dsem) ==
  [bits |-> bits, ok |-> TRUE, depth |-> 1, tr |-> {}, heap |-> NoHeap,
   I |-> [i \in 1..Len(nus) |-> UserRadiativeQI(nus[i], dsem)],
   Tau |-> [i \in 1..Len(nus) |-> UserRadiativeQTau(nus[i], dsem)]]

UserRadiativeQPolar(bits, nus, dsem) ==
  [bits |-> bits, ok |-> TRUE, depth |-> 1, tr |-> {}, heap |-> NoHeap,
   I |-> [i \in 1..Len(nus) |-> UserPolarI(nus[i], dsem)],
   Q |-> [i \in 1..Len(nus) |-> UserPolarQ(nus[i], dsem)],
   U |-> [i \in 1..Len(nus) |-> UserPolarU(nus[i], dsem)],
   V |-> [i \in 1..Len(nus) |-> UserPolarV(nus[i], dsem)],
   aI |-> [i \in 1..Len(nus) |-> UserPolarAlphaI(nus[i], dsem)],
   aQ |-> [i \in 1..Len(nus) |-> UserPolarAlphaQ(nus[i], dsem)],
   aU |-> [i \in 1..Len(nus) |-> UserPolarAlphaU(nus[i], dsem)],
   aV |-> [i \in 1..Len(nus) |-> UserPolarAlphaV(nus[i], dsem)],
   rQ |-> [i \in 1..Len(nus) |-> UserPolarRQ(nus[i], dsem)],
   rU |-> [i \in 1..Len(nus) |-> UserPolarRU(nus[i], dsem)],
   rV |-> [i \in 1..Len(nus) |-> UserPolarRV(nus[i], dsem)]]

(***************************************************************************)
(* Results of a chain that did not return within MaxCallDepth.             *)
(***************************************************************************)
NoReturnScalar(bits) ==
  [bits |-> bits, ok |-> FALSE, depth |-> 0, tr |-> {}, heap |-> NoHeap,
   val |-> Zero]
NoReturnVector(bits, n) ==
  [bits |-> bits, ok |-> FALSE, depth |-> 0, tr |-> {}, heap |-> NoHeap,
   I |-> Fill(n, Zero)]
NoReturnRadiativeQ(bits, n) ==
  [bits |-> bits, ok |-> FALSE, depth |-> 0, tr |-> {}, heap |-> NoHeap,
   I |-> Fill(n, Zero), Tau |-> Fill(n, Zero)]
NoReturnPolar(bits, n) ==
  [bits |-> bits, ok |-> FALSE, depth |-> 0, tr |-> {}, heap |-> NoHeap,
   I |-> Fill(n, Zero), Q |-> Fill(n, Zero), U |-> Fill(n, Zero),
   V |-> Fill(n, Zero), aI |-> Fill(n, Zero), aQ |-> Fill(n, Zero),
   aU |-> Fill(n, Zero), aV |-> Fill(n, Zero), rQ |-> Fill(n, Zero),
   rU |-> Fill(n, Zero), rV |-> Fill(n, Zero)]

(***************************************************************************)
(* The tests the default bodies make on __defaultfeatures.                 *)
(***************************************************************************)
\* a slip: && written for ||
TransmissionTriesRadiativeQ_and(bits) ==
  (~Has(bits, default_radiativeQ)) /\ (~Has(bits, default_radiativeQ_polar))

\* transmission(): is a radiativeQ still to be tried?
TransmissionTriesRadiativeQ(bits) ==
  (~Has(bits, default_radiativeQ)) \/ (~Has(bits, default_radiativeQ_polar))

\* a slip: the flag is not looked at
UniformTransmission_one(o) == One

\* transmission(): the uniform opacity, double(flag_radtransf_)
UniformTransmission(o) == IF o.flag_radtransf_ THEN One ELSE Zero

\* a slip: && written for || in the second test
EmissionBranch_and(bits) ==
  IF ~Has(bits, default_emission_vector) THEN "emission_vector"
  ELSE IF (~Has(bits, default_radiativeQ))
          /\ (~Has(bits, default_radiativeQ_polar)) THEN "radiativeQ"
  ELSE "uniform"

\* emission(double): which level answers
EmissionBranch(bits) ==
  IF ~Has(bits, default_emission_vector) THEN "emission_vector"
  ELSE IF (~Has(bits, default_radiativeQ))
          \/ (~Has(bits, default_radiativeQ_polar)) THEN "radiativeQ"
  ELSE "uniform"

\* a slip: the optically thin case forgotten
UniformEmission_thick(o, dsem) == One

\* emission(double): the uniform emission
UniformEmission(o, dsem) == IF o.flag_radtransf_ THEN dsem ELSE One

\* a slip: the bit is not set
EmissionVectorMark_unset(bits) == bits

\* a slip: the bits read are dropped
EmissionVectorMark_only(bits) == default_emission_vector

\* emission(double*): the bit it sets on entry
EmissionVectorMark(bits) == BitOr(bits, default_emission_vector)

\* a slip: the polarized radiativeQ is tried first
EmissionVectorBranch_polar(bits) ==
  IF ~Has(bits, default_radiativeQ_polar) THEN "radiativeQ_polar"
  ELSE IF ~Has(bits, default_radiativeQ) THEN "radiativeQ"
  ELSE "emission"

\* emission(double*): which level answers
EmissionVectorBranch(bits) ==
  IF ~Has(bits, default_radiativeQ) THEN "radiativeQ"
  ELSE IF ~Has(bits, default_radiativeQ_polar) THEN "radiativeQ_polar"
  ELSE "emission"

\* a slip: the bit is not set
RadiativeQMark_unset(bits) == bits

\* unpolarized radiativeQ: the bit it sets on entry
RadiativeQMark(bits) == BitOr(bits, default_radiativeQ)

\* a slip: the bit is not looked at
RadiativeQTriesPolar_always(bits) == TRUE

\* unpolarized radiativeQ: is the polarized one still to be tried?
RadiativeQTriesPolar(bits) == ~Has(bits, default_radiativeQ_polar)

\* unpolarized radiativeQ: after the polarized call, was it user code?
RadiativeQPolarAnswered(bits) == ~Has(bits, default_radiativeQ_polar)

\* a slip: the other bits are dropped
RadiativeQPolarMark_only(bits) == default_radiativeQ_polar

\* polarized radiativeQ: the bit it sets on entry
RadiativeQPolarMark(bits) == BitOr(bits, default_radiativeQ_polar)

\* polarized radiativeQ: alphaInu from Taunu
AlphaFromTau(tau) == IF LtTenth(tau) THEN NegInf ELSE NegLog(tau)

(***************************************************************************)
(* The five primitives.  o is the object, bits its __defaultfeatures on    *)
(* entry, f the nesting depth left.  Each returns the outputs, the bits on *)
(* return, whether the chain returned (ok), the depth it nested to and the *)
(* calls the default bodies made on the way (tr).                          *)
(***************************************************************************)
\* the default body of from called to when __defaultfeatures was bits
Edge(from, to, bits) == [from |-> from, to |-> to, bits |-> bits]

\* the default body that loops over the scalar primitive which
LoopOwner(which) ==
  IF which = "emission" THEN "emission_vector" ELSE "radiativeQ"

RECURSIVE Call(_, _, _, _, _, _)
RECURSIVE ScalarLoop(_, _, _, _, _, _)

\* for (i) out[i] = emission(nuem[i], ...)  or  transmission(nuem[i], ...)
ScalarLoop(which, o, nus, dsem, f, acc) ==
  IF (~acc.ok) \/ Len(acc.val) = Len(nus) THEN acc
  ELSE LET r == Call(which, o, acc.bits, <<nus[Len(acc.val) + 1]>>, dsem, f)
       IN  ScalarLoop(which, o, nus, dsem, f,
                      [bits |-> r.bits, ok |-> r.ok,
                       depth |-> Max(acc.depth, r.depth),
                       tr |-> acc.tr \cup r.tr
                                \cup {Edge(LoopOwner(which), which,
                                           acc.bits)},
                       heap |-> HeapJoin(acc.heap, r.heap),
                       val |-> Append(acc.val, r.val)])

LoopStart(bits) ==
  [bits |-> bits, ok |-> TRUE, depth |-> 0, tr |-> {}, heap |-> NoHeap,
   val |-> <<>>]

TransmissionDefault(o, bits, nuem, dsem, f) ==
  IF TransmissionTriesRadiativeQ(bits)
  THEN LET r == Call("radiativeQ", o, bits, <<nuem>>, dsem, f - 1)
       IN  [bits |-> r.bits, ok |-> r.ok, depth |-> r.depth + 1,
            tr |-> r.tr \cup {Edge("transmission", "radiativeQ", bits)},
            heap |-> HeapAfter(r.heap, "transmission", "radiativeQ"),
            val |-> r.Tau[1]]
  ELSE [bits |-> bits, ok |-> TRUE, depth |-> 1, tr |-> {}, heap |-> NoHeap,
        val |-> UniformTransmission(o)]

EmissionDefault(o, bits, nuem, dsem, f) ==
  IF EmissionBranch(bits) = "uniform"
  THEN [bits |-> bits, ok |-> TRUE, depth |-> 1, tr |-> {}, heap |-> NoHeap,
        val |-> UniformEmission(o, dsem)]
  ELSE LET r == Call(EmissionBranch(bits), o, bits, <<nuem>>, dsem, f - 1)
       IN  [bits |-> r.bits, ok |-> r.ok, depth |-> r.depth + 1,
            tr |-> r.tr \cup {Edge("emission", EmissionBranch(bits), bits)},
            heap |-> HeapAfter(r.heap, "emission", EmissionBranch(bits)),
            val |-> r.I[1]]

EmissionVectorDefault(o, bits0, nuem, dsem, f) ==
  LET bits == EmissionVectorMark(bits0)
  IN  IF EmissionVectorBranch(bits) = "emission"
      THEN LET r == ScalarLoop("emission", o, nuem, dsem, f - 1,
                               LoopStart(bits))
           IN  IF r.ok
               THEN [bits |-> r.bits, ok |-> TRUE, depth |-> r.depth + 1,
                     tr |-> r.tr,
                     heap |-> HeapAfter(r.heap, "emission_vector",
                                        "emission"),
                     I |-> r.val]
               ELSE [NoReturnVector(r.bits, Len(nuem)) EXCEPT !.tr = r.tr]
      ELSE LET r == Call(EmissionVectorBranch(bits), o, bits, nuem, dsem,
                         f - 1)
           IN  [bits |-> r.bits, ok |-> r.ok, depth |-> r.depth + 1,
                tr |-> r.tr \cup {Edge("emission_vector",
                                       EmissionVectorBranch(bits), bits)},
                heap |-> HeapAfter(r.heap, "emission_vector",
                                   EmissionVectorBranch(bits)),
                I |-> r.I]

RadiativeQDefault(o, bits0, nuem, dsem, f) ==
  LET bits == RadiativeQMark(bits0)
      to == IF RadiativeQTriesPolar(bits) THEN "radiativeQ_polar"
            ELSE "emission_vector"
      first == Call(to, o, bits, nuem, dsem, f - 1)
      t == ScalarLoop("transmission", o, nuem, dsem, f - 1,
                      LoopStart(first.bits))
  IN  IF ~first.ok
      THEN [NoReturnRadiativeQ(first.bits, Len(nuem))
              EXCEPT !.tr = first.tr \cup {Edge("radiativeQ", to, bits)}]
      ELSE IF RadiativeQTriesPolar(bits) /\ RadiativeQPolarAnswered(first.bits)
      THEN [bits |-> first.bits, ok |-> TRUE, depth |-> first.depth + 1,
            tr |-> first.tr \cup {Edge("radiativeQ", to, bits)},
            heap |-> HeapAfter(first.heap, "radiativeQ", to),
            I |-> first.I,
            Tau |-> [i \in 1..Len(nuem) |-> ExpNeg(first.aI[i])]]
      ELSE IF t.ok
      THEN [bits |-> t.bits, ok |-> TRUE,
            depth |-> Max(first.depth, t.depth) + 1,
            tr |-> first.tr \cup t.tr \cup {Edge("radiativeQ", to, bits)},
            heap |-> HeapAfter(HeapJoin(first.heap, t.heap), "radiativeQ",
                               to),
            I |-> first.I, Tau |-> t.val]
      ELSE [NoReturnRadiativeQ(t.bits, Len(nuem))
              EXCEPT !.tr = first.tr \cup t.tr
                              \cup {Edge("radiativeQ", to, bits)}]

RadiativeQPolarDefault(o, bits0, nuem, dsem, f) ==
  LET bits == RadiativeQPolarMark(bits0)
      n == Len(nuem)
      r == Call("radiativeQ", o, bits, nuem, dsem, f - 1)
  IN  [bits |-> r.bits, ok |-> r.ok, depth |-> r.depth + 1,
       tr |-> r.tr \cup {Edge("radiativeQ_polar", "radiativeQ", bits)},
       heap |-> HeapAfter(r.heap, "radiativeQ_polar", "radiativeQ"),
       I |-> r.I,
       Q |-> Fill(n, Zero), U |-> Fill(n, Zero), V |-> Fill(n, Zero),
       aI |-> [i \in 1..n |-> AlphaFromTau(r.Tau[i])],
       aQ |-> Fill(n, Zero), aU |-> Fill(n, Zero), aV |-> Fill(n, Zero),
       rQ |-> Fill(n, Zero), rU |-> Fill(n, Zero), rV |-> Fill(n, Zero)]

\* a virtual call: the type's own code if it has any, else the default body
Call(prim, o, bits, nuem, dsem, f) ==
  CASE prim = "transmission" ->
         IF f = 0 THEN NoReturnScalar(bits)
         ELSE IF prim \in o.overrides
         THEN [bits |-> bits, ok |-> TRUE, depth |-> 1, tr |-> {},
               heap |-> NoHeap,
               val |-> UserTransmission(nuem[1], dsem)]
         ELSE TransmissionDefault(o, bits, nuem[1], dsem, f)
    [] prim = "emission" ->
         IF f = 0 THEN NoReturnScalar(bits)
         ELSE IF prim \in o.overrides
         THEN [bits |-> bits, ok |-> TRUE, depth |-> 1, tr |-> {},
               heap |-> NoHeap,
               val |-> UserEmission(nuem[1], dsem)]
         ELSE EmissionDefault(o, bits, nuem[1], dsem, f)
    [] prim = "emission_vector" ->
         IF f = 0 THEN NoReturnVector(bits, Len(nuem))
         ELSE IF prim \in o.overrides
         THEN UserEmissionVector(bits, nuem, dsem)
         ELSE EmissionVectorDefault(o, bits, nuem, dsem, f)
    [] prim = "radiativeQ" ->
         IF f = 0 THEN NoReturnRadiativeQ(bits, Len(nuem))
         ELSE IF prim \in o.overrides
         THEN UserRadiativeQ(bits, nuem, dsem)
         ELSE RadiativeQDefault(o, bits, nuem, dsem, f)
    [] prim = "radiativeQ_polar" ->
         IF f = 0 THEN NoReturnPolar(bits, Len(nuem))
         ELSE IF prim \in o.overrides
         THEN UserRadiativeQPolar(bits, nuem, dsem)
         ELSE RadiativeQPolarDefault(o, bits, nuem, dsem, f)

Transmission(o, bits, nuem, dsem, f) ==
  Call("transmission", o, bits, <<nuem>>, dsem, f)
Emission(o, bits, nuem, dsem, f) ==
  Call("emission", o, bits, <<nuem>>, dsem, f)
EmissionVector(o, bits, nuem, dsem, f) ==
  Call("emission_vector", o, bits, nuem, dsem, f)
RadiativeQ(o, bits, nuem, dsem, f) ==
  Call("radiativeQ", o, bits, nuem, dsem, f)
RadiativeQPolar(o, bits, nuem, dsem, f) ==
  Call("radiativeQ_polar", o, bits, nuem, dsem, f)

(***************************************************************************)
(* Arguments the calls are tried with.                                     *)
(***************************************************************************)
\* the i-th frequency of the grid: 1/2, 3/2, 5/2, ...
MidPoint(i) == Rat(2 * i - 1, 2)
NuChoices == {MidPoint(i) : i \in 1..MaxNu}
DsemChoices == {Rat(1, 2), Rat(2, 1)}
NuSeqs == {[i \in 1..n |-> MidPoint(i)] : n \in 0..MaxNu}

(***************************************************************************)
(* State.  obj: the Astrobj::Generic instance and the set of primitives    *)
(* its concrete type overrides.  call: the last direct call of a primitive,*)
(* __defaultfeatures (bits0) and opticallyThin() (thin) when it was made,  *)
(* and what it returned.  ph: the Photon.  data: the Astrobj::Properties.  *)
(* hit: the last processHitQuantities call.                                *)
(***************************************************************************)
NoCall == [op |-> "none", nuem |-> <<>>, dsem |-> Zero, bits0 |-> 0,
           thin |-> FALSE,
           res |-> [bits |-> 0, ok |-> TRUE, depth |-> 0, tr |-> {},
                    heap |-> NoHeap]]

\* Generic::Generic(): the members after construction
NewGeneric(overrides) ==
  [overrides |-> overrides, defaultfeatures |-> 0,
   flag_radtransf_ |-> FALSE, noredshift_ |-> FALSE,
   gg_ |-> "NULL", rmax_ |-> DBL_MAX, deltamaxinsidermax_ |-> One]

NoPhoton == [pt |-> FALSE, nbnuobs |-> 0, transAll |-> One, trans |-> <<>>]
NoData == [req |-> {}]
\* no call of processHitQuantities yet
NoHit == [status |-> "none", count |-> 0, hist |-> <<>>, log |-> <<>>,
          wr |-> {}, nullacc |-> {}, heap |-> NoHeap]

Init ==
  /\ obj \in {NewGeneric(ov) : ov \in SUBSET Prims}
  /\ call = NoCall
  /\ ph = NoPhoton
  /\ data = NoData
  /\ hit = NoHit

\* the process is alive: no chain of calls has run away
Alive == call.res.ok

\* the object after a call that returned with __defaultfeatures = bits
Marked(bits) == [obj EXCEPT !.defaultfeatures = bits]

CallTransmission(nuem, dsem) ==
  /\ Alive
  /\ LET r == Transmission(obj, obj.defaultfeatures, nuem, dsem, MaxCallDepth)
     IN  /\ obj' = Marked(r.bits)
         /\ call' = [op |-> "transmission", nuem |-> <<nuem>>, dsem |-> dsem,
                     bits0 |-> obj.defaultfeatures,
                     thin |-> obj.flag_radtransf_, res |-> r]
  /\ UNCHANGED <<ph, data, hit>>

CallEmission(nuem, dsem) ==
  /\ Alive
  /\ LET r == Emission(obj, obj.defaultfeatures, nuem, dsem, MaxCallDepth)
     IN  /\ obj' = Marked(r.bits)
         /\ call' = [op |-> "emission", nuem |-> <<nuem>>, dsem |-> dsem,
                     bits0 |-> obj.defaultfeatures,
                     thin |-> obj.flag_radtransf_, res |-> r]
  /\ UNCHANGED <<ph, data, hit>>

CallEmissionVector(nuem, dsem) ==
  /\ Alive
  /\ LET r == EmissionVector(obj, obj.defaultfeatures, nuem, dsem,
                             MaxCallDepth)
     IN  /\ obj' = Marked(r.bits)
         /\ call' = [op |-> "emission_vector", nuem |-> nuem, dsem |-> dsem,
                     bits0 |-> obj.defaultfeatures,
                     thin |-> obj.flag_radtransf_, res |-> r]
  /\ UNCHANGED <<ph, data, hit>>

CallRadiativeQ(nuem, dsem) ==
  /\ Alive
  /\ LET r == RadiativeQ(obj, obj.defaultfeatures, nuem, dsem, MaxCallDepth)
     IN  /\ obj' = Marked(r.bits)
         /\ call' = [op |-> "radiativeQ", nuem |-> nuem, dsem |-> dsem,
                     bits0 |-> obj.defaultfeatures,
                     thin |-> obj.flag_radtransf_, res |-> r]
  /\ UNCHANGED <<ph, data, hit>>

CallRadiativeQPolar(nuem, dsem) ==
  /\ Alive
  /\ LET r == RadiativeQPolar(obj, obj.defaultfeatures, nuem, dsem,
                              MaxCallDepth)
     IN  /\ obj' = Marked(r.bits)
         /\ call' = [op |-> "radiativeQ_polar", nuem |-> nuem, dsem |-> dsem,
                     bits0 |-> obj.defaultfeatures,
                     thin |-> obj.flag_radtransf_, res |-> r]
  /\ UNCHANGED <<ph, data, hit>>

\* Generic::opticallyThin(bool)
OpticallyThin(flag) ==
  /\ Alive
  /\ obj.flag_radtransf_ # flag
  /\ obj' = [obj EXCEPT !.flag_radtransf_ = flag]
  /\ UNCHANGED <<call, ph, data, hit>>

Next ==
  \/ \E nu \in NuChoices, dsem \in DsemChoices : CallTransmission(nu, dsem)
  \/ \E nu \in NuChoices, dsem \in DsemChoices : CallEmission(nu, dsem)
  \/ \E nus \in NuSeqs, dsem \in DsemChoices : CallEmissionVector(nus, dsem)
  \/ \E nus \in NuSeqs, dsem \in DsemChoices : CallRadiativeQ(nus, dsem)
  \/ \E nus \in NuSeqs, dsem \in DsemChoices : CallRadiativeQPolar(nus, dsem)
  \/ \E flag \in BOOLEAN : OpticallyThin(flag)

Spec == Init /\ [][Next]_vars

(***************************************************************************)
(* The collaborators of processHitQuantities: the Photon and its           *)
(* Spectrometer.  index -1 is size_t(-1), the overall transmission.        *)
(***************************************************************************)
Slots == {"intensity", "time", "redshift", "impactcoords", "binspectrum",
          "spectrum", "stokesQ", "stokesU", "stokesV"}

\* Photon::freqObs(): always 1
FreqObs == One

\* a photon that has crossed nothing yet, with a spectrometer of n channels
FreshPhoton(pt, n) ==
  [pt |-> pt, nbnuobs |-> n, transAll |-> One, trans |-> Fill(n, One)]

\* Photon::getTransmission(i)
GetTransmission(p, i) == IF i = -1 THEN p.transAll ELSE p.trans[i + 1]

\* Photon::transmit(i, t)
Transmit(p, i, t) ==
  IF i = -1 THEN [p EXCEPT !.transAll = Mul(@, t)]
  ELSE [p EXCEPT !.trans[i + 1] = Mul(@, t)]

\* Photon::transfer(...): composes the segment into the per-channel record
Transfer(p, aI) ==
  [p EXCEPT !.trans = [i \in 1..Len(p.trans) |->
                         Mul(p.trans[i], ExpNeg(aI[i]))]]

\* Spectrometer::getChannelBoundaries()[j], j = 0..nbnuobs
Boundary(j) == Rat(j, 1)
\* Spectrometer::getChannelIndices()[k], k = 0..2*nbnuobs-1
ChanInd(k) == (k \div 2) + (k % 2)

(***************************************************************************)
(* Astrobj::Properties: req is the set of non-null slots.  The value kept  *)
(* for a null slot is never read.  offset is 1.                            *)
(***************************************************************************)
\* Properties::init(nbnuobs)
PropertiesAfterInit(req, n) ==
  [req |-> req, intensity |-> Zero, time |-> DBL_MAX, redshift |-> Zero,
   spectrum |-> Fill(n, Zero), stokesQ |-> Fill(n, Zero),
   stokesU |-> Fill(n, Zero), stokesV |-> Fill(n, Zero),
   binspectrum |-> Fill(n, Zero), impactcoords |-> Fill(16, DBL_MAX)]

(***************************************************************************)
(* A hit event: the photon's and the object's coordinates, dt, and what    *)
(* the metric's ScalarProd returns for them.                               *)
(***************************************************************************)
HitInputs ==
  {[e |-> 1, t |-> Rat(3, 1), tdot |-> Rat(2, 1), dt |-> Rat(1, 1),
    sprod |-> Rat(-2, 1)],
   [e |-> 2, t |-> Rat(5, 1), tdot |-> Rat(1, 1), dt |-> Rat(4, 1),
    sprod |-> Rat(-1, 2)]}

\* coord_ph_hit: 8 components, 16 with a parallel-transported basis
CoordPh(in, pt) ==
  <<in.t, Rat(10 * in.e + 1, 1), Rat(10 * in.e + 2, 1),
    Rat(10 * in.e + 3, 1), in.tdot, Rat(10 * in.e + 5, 1),
    Rat(10 * in.e + 6, 1), Rat(10 * in.e + 7, 1)>>
  \o (IF pt THEN [i \in 1..8 |-> Rat(10 * in.e + 7 + i, 1)] ELSE <<>>)

\* coord_obj_hit: 8 components
CoordObj(in) == [i \in 1..8 |-> Rat(100 * in.e + i, 1)]

(***************************************************************************)
(* Generic::integrateEmission                                              *)
(***************************************************************************)
RECURSIVE SampleLoop(_, _, _, _, _, _)
RECURSIVE RefineLoop(_, _, _, _, _, _)

\* Icur += emission(nu, ...) * dnux2, e being what emission returned
Sampled(acc, e, dnux2) ==
  [bits |-> e.bits, ok |-> e.ok, heap |-> HeapJoin(acc.heap, e.heap),
   Icur |-> Add(acc.Icur, Mul(e.val, dnux2))]

\* for (nu = nu1 + 0.5*dnux2; nu < nu2; nu += dnux2) Icur += ...
SampleLoop(o, acc, nu, nu2, dnux2, dsem) ==
  IF (~acc.ok) \/ ~Lt(nu, nu2) THEN acc
  ELSE SampleLoop(o, Sampled(acc, Emission(o, acc.bits, nu, dsem,
                                           MaxCallDepth), dnux2),
                  Add(nu, dnux2), nu2, dnux2, dsem)

\* the test of the do ... while
RefineAgain(Icur, Iprev) == Lt(Mul(Rat(1, 100), Icur), Fabs(Sub(Icur, Iprev)))

\* Icur *= 0.5 after the sampling pass a
Refined(st, a, dnux2) ==
  [bits |-> a.bits, ok |-> a.ok, heap |-> a.heap,
   Icur |-> Mul(a.Icur, Rat(1, 2)),
   dnux2 |-> dnux2, rounds |-> st.rounds + 1]

\* one turn of the do ... while, nxt being the state at its end
RefineTurn(o, st, nxt, nu1, nu2, dsem, k) ==
  IF nxt.ok /\ RefineAgain(nxt.Icur, st.Icur)
  THEN RefineLoop(o, nxt, nu1, nu2, dsem, k - 1)
  ELSE nxt

\* dnux2 *= 0.5, then the sampling pass
RefinePass(o, st, dnux2, nu1, nu2, dsem, k) ==
  RefineTurn(o, st,
             Refined(st,
                     SampleLoop(o, [bits |-> st.bits, ok |-> TRUE,
                                    heap |-> st.heap, Icur |-> st.Icur],
                                Add(nu1, Mul(Rat(1, 2), dnux2)), nu2, dnux2,
                                dsem),
                     dnux2),
             nu1, nu2, dsem, k)

\* do { ... } while (fabs(Icur-Iprev) > 1e-2 * Icur), k turns left
RefineLoop(o, st, nu1, nu2, dsem, k) ==
  IF ~st.ok THEN st
  ELSE IF k = 0 THEN [st EXCEPT !.ok = FALSE]
  ELSE RefinePass(o, st, Mul(st.dnux2, Rat(1, 2)), nu1, nu2, dsem, k)

\* Icur = (Inu2+Inu1)*dnux2*0.25, e1 and e2 being the two emission calls
FirstEstimate(e1, e2, dnux2) ==
  [bits |-> e2.bits, ok |-> e1.ok /\ e2.ok,
   heap |-> HeapJoin(e1.heap, e2.heap),
   Icur |-> Mul(Mul(Add(e2.val, e1.val), dnux2), Rat(1, 4)),
   dnux2 |-> dnux2, rounds |-> 0]

\* Inu2 = emission(nu2, ...), after Inu1
SecondEmission(o, e1, nu1, nu2, dsem) ==
  RefineLoop(o, FirstEstimate(e1, Emission(o, e1.bits, nu2, dsem,
                                           MaxCallDepth),
                              Mul(Sub(nu2, nu1), Rat(2, 1))),
             nu1, nu2, dsem, MaxRefine)

\* integrateEmission(nu1, nu2, dsem, ...) once nu1 <= nu2
IntegrateOrdered(o, bits, nu1, nu2, dsem) ==
  SecondEmission(o, Emission(o, bits, nu1, dsem, MaxCallDepth), nu1, nu2,
                 dsem)

\* integrateEmission(nu1, nu2, dsem, ...)
IntegrateEmission(o, bits, nua, nub, dsem) ==
  IF Lt(nub, nua) THEN IntegrateOrdered(o, bits, nub, nua, dsem)
  ELSE IntegrateOrdered(o, bits, nua, nub, dsem)

(***************************************************************************)
(* Generic::processHitQuantities.  The call is a sequence of steps on      *)
(*   s = [bits, ph, data, log, wr, nullacc, status]                        *)
(* bits: __defaultfeatures; log: the calls made on the photon, in order;   *)
(* wr: the slots written; nullacc: the null slots dereferenced; status:    *)
(* "running", then "returned", "error" (GYOTO_ERROR thrown), "segv" or     *)
(* "noreturn" (a primitive did not return).  c holds the locals computed   *)
(* on entry.                                                               *)
(***************************************************************************)
\* -gg_->ScalarProd(...), or 1 if (noredshift_)
\* a slip: noredshift_ is not looked at
Ggredm1_always(o, in) == Neg(in.sprod)

\* ggredm1 = -ScalarProd(...); if (noredshift_) ggredm1=1.
Ggredm1(o, in) == IF o.noredshift_ THEN One ELSE Neg(in.sprod)

\* dlambda = dt/coord_ph_hit[4]
Dlambda(in) == Mul(in.dt, Inv(in.tdot))

HitLocals(o, p, in) ==
  [coord_ph_hit |-> CoordPh(in, p.pt), coord_obj_hit |-> CoordObj(in),
   nbnuobs |-> p.nbnuobs,
   nuobs |-> [i \in 1..p.nbnuobs |-> MidPoint(i)],
   freqObs |-> FreqObs, ggredm1 |-> Ggredm1(o, in),
   ggred |-> Inv(Ggredm1(o, in)),
   dsem |-> Mul(Dlambda(in), Ggredm1(o, in))]

Cube(x) == Mul(Mul(x, x), x)
Fourth(x) == Mul(Mul(Mul(x, x), x), x)
Requested(s, slot) == slot \in s.data.req

\* what a call made on the photon leaves in the log
Got(p, i) == [ev |-> "getTransmission", i |-> i, v |-> GetTransmission(p, i)]
Sent(i, t) == [ev |-> "transmit", i |-> i, v |-> t]

\* a primitive has returned r: its bits, and whether it returned at all
Returned(s, r) ==
  [s EXCEPT !.bits = r.bits, !.heap = HeapJoin(@, r.heap),
            !.status = IF r.ok THEN @ ELSE "noreturn"]

\* n times  double * x = new double[...]
Allocated(s, n) == [s EXCEPT !.heap.new = @ + n]

\* n times  delete [] x, if the call gets there
Released(s, n) ==
  IF s.status = "running" THEN [s EXCEPT !.heap.del = @ + n] ELSE s

\* if (data->redshift) *data->redshift = ggred;
StepRedshift(s, c) ==
  IF s.status = "running" /\ Requested(s, "redshift")
  THEN [s EXCEPT !.data.redshift = c.ggred, !.wr = @ \cup {"redshift"}]
  ELSE s

\* if (data->time) *data->time = coord_ph_hit[0];
StepTime(s, c) ==
  IF s.status = "running" /\ Requested(s, "time")
  THEN [s EXCEPT !.data.time = c.coord_ph_hit[1], !.wr = @ \cup {"time"}]
  ELSE s

\* a slip: the sentinel is not looked at
ImpactCoordsPending_always(d) == "impactcoords" \in d.req

\* the guard of the impact-coordinates snapshot
ImpactCoordsPending(d) ==
  "impactcoords" \in d.req /\ d.impactcoords[1] = DBL_MAX

\* the snapshot: 8 components of the object, then 8 of the photon
Snapshot(c) ==
  [i \in 1..16 |-> IF i <= 8 THEN c.coord_obj_hit[i]
                   ELSE c.coord_ph_hit[i - 8]]

\* a slip: the size of the photon's state is not looked at
ParallelTransported_never(c) == FALSE

\* coord_ph_hit.size() > 8
ParallelTransported(c) == Len(c.coord_ph_hit) > 8

StepImpactCoords(s, c) ==
  IF s.status = "running" /\ ImpactCoordsPending(s.data)
  THEN IF ParallelTransported(c)
       THEN [s EXCEPT !.status = "error"]
       ELSE [s EXCEPT !.data.impactcoords = Snapshot(c),
                      !.wr = @ \cup {"impactcoords"}]
  ELSE s

\* a slip: the attenuation by earlier crossings forgotten
IntensityTransmission_one(p) == One

\* the transmission the intensity increment is weighted with
IntensityTransmission(p) == GetTransmission(p, -1)

\* inc = emission(...) * getTransmission(-1) * ggred^3; *intensity += inc
AddIntensity(s, c, e) ==
  Returned([s EXCEPT !.data.intensity =
                       Add(@, Mul(Mul(e.val, IntensityTransmission(s.ph)),
                                  Cube(c.ggred))),
                     !.wr = @ \cup {"intensity"},
                     !.log = Append(@, Got(s.ph, -1))], e)

StepIntensity(o, s, c) ==
  IF s.status = "running" /\ Requested(s, "intensity")
  THEN AddIntensity(s, c, Emission(o, s.bits, Mul(c.freqObs, c.ggredm1),
                                   c.dsem, MaxCallDepth))
  ELSE s

\* I[i] = integrateEmission(...), r being what it returned
Integrated(acc, r) ==
  [bits |-> r.bits, ok |-> r.ok, heap |-> HeapJoin(acc.heap, r.heap),
   I |-> Append(acc.I, r.Icur)]

RECURSIVE IntegrateChannels(_, _, _, _)
\* integrateEmission(I, boundaries, chaninds, nbnu, ...)
IntegrateChannels(o, acc, c, n) ==
  IF (~acc.ok) \/ Len(acc.I) = n THEN acc
  ELSE IntegrateChannels(
         o,
         Integrated(acc,
                    IntegrateEmission(
                      o, acc.bits,
                      Mul(Boundary(ChanInd(2 * Len(acc.I))), c.ggredm1),
                      Mul(Boundary(ChanInd(2 * Len(acc.I) + 1)), c.ggredm1),
                      c.dsem)),
         c, n)

\* does the binned-spectrum loop update the channel's transmission itself?
BinSpectrumTransmits(d) == "spectrum" \notin d.req

\* binspectrum[ii] += I[ii] * getTransmission(ii) * ggred^4
AddBinSpectrum(s, c, I, ii) ==
  [s EXCEPT !.data.binspectrum[ii + 1] =
              Add(@, Mul(Mul(I[ii + 1], GetTransmission(s.ph, ii)),
                         Fourth(c.ggred))),
            !.wr = @ \cup {"binspectrum"},
            !.log = Append(@, Got(s.ph, ii))]

\* ph->transmit(ii, t), t being what a primitive returned
TransmitChannel(s, ii, t) ==
  Returned([s EXCEPT !.ph = Transmit(@, ii, t.val),
                     !.log = Append(@, Sent(ii, t.val))], t)

\* if (!data->spectrum) ph->transmit(ii, transmission(nuobs[ii]*ggredm1,...))
BinSpectrumTransmit(o, s, c, ii) ==
  IF BinSpectrumTransmits(s.data)
  THEN TransmitChannel(s, ii,
                       Transmission(o, s.bits,
                                    Mul(c.nuobs[ii + 1], c.ggredm1), c.dsem,
                                    MaxCallDepth))
  ELSE s

RECURSIVE BinSpectrumLoop(_, _, _, _, _)
\* for (ii<nbnuobs) { binspectrum[ii] += ...; if (!data->spectrum) ... }
BinSpectrumLoop(o, s, c, I, ii) ==
  IF s.status # "running" \/ ii = c.nbnuobs THEN s
  ELSE BinSpectrumLoop(o, BinSpectrumTransmit(o, AddBinSpectrum(s, c, I, ii),
                                              c, ii),
                       c, I, ii + 1)

\* the loop, r being what integrateEmission left in I
BinSpectrumStore(o, s, c, r) ==
  IF r.ok THEN BinSpectrumLoop(o, Returned(s, r), c, r.I, 0)
  ELSE Returned(s, r)

\* new I, boundaries; integrateEmission; the loop; delete [] I, boundaries
BinSpectrumBlock(o, s, c, r) == Released(BinSpectrumStore(o, s, c, r), 2)

StepBinSpectrum(o, s, c) ==
  IF s.status = "running" /\ Requested(s, "binspectrum")
  THEN BinSpectrumBlock(o, Allocated(s, 2), c,
                        IntegrateChannels(o, [bits |-> s.bits, ok |-> TRUE,
                                              heap |-> NoHeap, I |-> <<>>],
                                          c, c.nbnuobs))
  ELSE s

\* the test that opens the spectrum / Stokes block
SpectralRequested(d) ==
  \/ "spectrum" \in d.req
  \/ "stokesQ" \in d.req
  \/ "stokesU" \in d.req
  \/ "stokesV" \in d.req

\* if (data->slot) data->slot[ii*offset] += x * ggred^3
AddStokes(s, slot, ii, x, c) ==
  IF Requested(s, slot)
  THEN [s EXCEPT !.data[slot][ii + 1] = Add(@, Mul(x, Cube(c.ggred))),
                 !.wr = @ \cup {slot}]
  ELSE s

RECURSIVE PolarizedLoop(_, _, _, _)
PolarizedLoop(s, c, r, ii) ==
  IF ii = c.nbnuobs THEN s
  ELSE PolarizedLoop(
         AddStokes(AddStokes(AddStokes(AddStokes(s, "spectrum", ii,
                                                 r.I[ii + 1], c),
                                       "stokesQ", ii, r.Q[ii + 1], c),
                             "stokesU", ii, r.U[ii + 1], c),
                   "stokesV", ii, r.V[ii + 1], c),
         c, r, ii + 1)

\* ph->transfer(...), then the loop; r is what radiativeQ returned
PolarizedStore(s, c, r) ==
  IF ~r.ok THEN Returned(s, r)
  ELSE PolarizedLoop([s EXCEPT !.bits = r.bits,
                               !.heap = HeapJoin(@, r.heap),
                               !.ph = Transfer(@, r.aI),
                               !.log = Append(@, [ev |-> "transfer",
                                                  i |-> 0, v |-> Zero])],
                     c, r, 0)

\* does the unpolarized loop test data->spectrum before it stores?
UnpolarizedStoreChecked == FALSE

\* data->spectrum[ii*offset] += Inu[ii] * getTransmission(ii) * ggred^3
\* ub: what the store does when data->spectrum is null
StoreSpectrum(s, c, r, ii, ub) ==
  IF Requested(s, "spectrum")
  THEN [s EXCEPT !.data.spectrum[ii + 1] =
                   Add(@, Mul(Mul(r.I[ii + 1], GetTransmission(s.ph, ii)),
                              Cube(c.ggred))),
                 !.wr = @ \cup {"spectrum"},
                 !.log = Append(@, Got(s.ph, ii))]
  ELSE IF UnpolarizedStoreChecked
  THEN [s EXCEPT !.log = Append(@, Got(s.ph, ii))]
  ELSE [s EXCEPT !.nullacc = @ \cup {"spectrum"},
                 !.log = Append(@, Got(s.ph, ii)),
                 !.status = IF ub = "segv" THEN "segv" ELSE @]

\* ph->transmit(ii, Taunu[ii])
TransmitTau(s, r, ii) ==
  IF s.status # "running" THEN s
  ELSE [s EXCEPT !.ph = Transmit(@, ii, r.Tau[ii + 1]),
                 !.log = Append(@, Sent(ii, r.Tau[ii + 1]))]

RECURSIVE UnpolarizedLoop(_, _, _, _, _)
\* for (ii<nbnuobs) { data->spectrum[ii] += ...; ph->transmit(ii,Taunu[ii]); }
UnpolarizedLoop(s, c, r, ii, ub) ==
  IF s.status # "running" \/ ii = c.nbnuobs THEN s
  ELSE UnpolarizedLoop(TransmitTau(StoreSpectrum(s, c, r, ii, ub), r, ii),
                       c, r, ii + 1, ub)

\* the loop; r is what radiativeQ returned
UnpolarizedStore(s, c, r, ub) ==
  IF ~r.ok THEN Returned(s, r)
  ELSE UnpolarizedLoop(Returned(s, r), c, r, 0, ub)

\* nuem[ii] = nuobs[ii]*ggredm1
Nuem(c) == [i \in 1..c.nbnuobs |-> Mul(c.nuobs[i], c.ggredm1)]

StepSpectrum(o, s, c, ub) ==
  IF s.status = "running" /\ SpectralRequested(s.data)
  THEN IF s.ph.pt
       THEN Released(PolarizedStore(Allocated(s, 12), c,
                                    RadiativeQPolar(o, s.bits, Nuem(c),
                                                    c.dsem, MaxCallDepth)),
                     12)
       ELSE Released(UnpolarizedStore(Allocated(s, 3), c,
                                      RadiativeQ(o, s.bits, Nuem(c), c.dsem,
                                                 MaxCallDepth), ub),
                     3)
  ELSE s

\* a slip: the overall transmission is not updated
TransmitAll_skipped(s, t) == Returned(s, t)

\* ph->transmit(size_t(-1), t), t being what transmission returned
TransmitAll(s, t) ==
  Returned([s EXCEPT !.ph = Transmit(@, -1, t.val),
                     !.log = Append(@, Sent(-1, t.val))], t)

\* ph->transmit(size_t(-1), transmission(freqObs*ggredm1, dsem, ...))
StepTransmitAll(o, s, c) ==
  IF s.status = "running"
  THEN TransmitAll(s, Transmission(o, s.bits, Mul(c.freqObs, c.ggredm1),
                                   c.dsem, MaxCallDepth))
  ELSE s

\* the slot steps between the impact coordinates and the final transmit
StepSlots(o, s, c, ub) ==
  StepSpectrum(o, StepBinSpectrum(o, StepIntensity(o, s, c), c), c, ub)

\* the call begins
HitStart(o, p, d) ==
  [bits |-> o.defaultfeatures, ph |-> p, data |-> d, log |-> <<>>,
   wr |-> {}, nullacc |-> {}, heap |-> NoHeap, status |-> "running"]

\* the call ends
HitEnd(s) == [s EXCEPT !.status = IF @ = "running" THEN "returned" ELSE @]

\* the body of if (data), c being the locals
HitBody(o, s, c, ub) ==
  HitEnd(StepTransmitAll(
           o,
           StepSlots(o, StepImpactCoords(StepTime(StepRedshift(s, c), c), c),
                     c, ub),
           c))

\* processHitQuantities(ph, coord_ph_hit, coord_obj_hit, dt, data), data != 0
ProcessHitQuantities(o, p, d, in, ub) ==
  HitBody(o, HitStart(o, p, d), HitLocals(o, p, in), ub)

(***************************************************************************)
(* Ray tracing: one object, one photon at a time, one Output Record.       *)
(* hit records the last call of processHitQuantities: its status, the      *)
(* state it started from (last), what it did to the photon (log), the      *)
(* slots it wrote (wr), the null slots it went through (nullacc); hist     *)
(* lists the calls made since the last Properties::init.                   *)
(***************************************************************************)
\* the kinds of object that are traced
HitObjects ==
  {{}, {"transmission", "emission"}, {"radiativeQ"}, {"radiativeQ_polar"}}

\* the sets of quantities that are requested
ReqChoices ==
  {{}, {"intensity", "redshift", "time"}, {"spectrum"}, {"binspectrum"},
   {"binspectrum", "spectrum"}, {"stokesQ"},
   {"intensity", "stokesU", "stokesV"},
   {"spectrum", "stokesQ", "stokesU", "stokesV"},
   {"impactcoords", "intensity", "spectrum"}, Slots}

InitHit ==
  /\ obj \in {[NewGeneric(ov) EXCEPT !.gg_ = "SPHERICAL"] : ov \in HitObjects}
  /\ call = NoCall
  /\ ph = FreshPhoton(FALSE, MaxNu)
  /\ data \in {PropertiesAfterInit(req, MaxNu) : req \in ReqChoices}
  /\ hit = NoHit

\* the process has not crashed
Running == hit.status # "segv"

\* what the call s leaves behind, h being where it started from
HitDone(s, h) ==
  /\ obj' = Marked(s.bits)
  /\ ph' = s.ph
  /\ data' = s.data
  /\ hit' = [status |-> s.status, count |-> hit.count + 1,
             hist |-> Append(hit.hist, [h EXCEPT !.status = s.status]),
             log |-> s.log, wr |-> s.wr, nullacc |-> s.nullacc,
             heap |-> s.heap]

Hit(in, ub) ==
  /\ Running
  /\ hit.count < MaxHits
  /\ HitDone(ProcessHitQuantities(obj, ph, data, in, ub),
             [o |-> obj, ph |-> ph, data |-> data, in |-> in,
              status |-> "running"])
  /\ UNCHANGED call

\* processHitQuantities(..., data = NULL): nothing is computed
HitNoData(in) ==
  /\ Running
  /\ hit.count < MaxHits
  /\ hit' = [hit EXCEPT !.status = "nodata", !.count = @ + 1,
                        !.log = <<>>, !.wr = {}, !.nullacc = {},
                        !.heap = NoHeap]
  /\ UNCHANGED <<obj, call, ph, data>>

\* Properties::init(nbnuobs), once the record has been through a call
PropertiesInit ==
  /\ Running
  /\ hit.hist # <<>>
  /\ data' = PropertiesAfterInit(data.req, ph.nbnuobs)
  /\ hit' = [hit EXCEPT !.status = "init", !.hist = <<>>]
  /\ UNCHANGED <<obj, call, ph>>

\* another photon is traced
NewPhoton(pt) ==
  /\ Running
  /\ ph # FreshPhoton(pt, ph.nbnuobs)
  /\ ph' = FreshPhoton(pt, ph.nbnuobs)
  /\ hit' = [hit EXCEPT !.status = IF @ = "none" THEN @ ELSE "photon"]
  /\ UNCHANGED <<obj, call, data>>

\* the object is configured before it is traced
Configuring == hit.status = "none"

\* Generic::redshift(flag)
Redshift(flag) ==
  /\ Configuring
  /\ obj.noredshift_ # ~flag
  /\ obj' = [obj EXCEPT !.noredshift_ = ~flag]
  /\ UNCHANGED <<call, ph, data, hit>>

\* Generic::opticallyThin(flag)
HitOpticallyThin(flag) ==
  /\ Configuring
  /\ OpticallyThin(flag)

NextHit ==
  \/ \E in \in HitInputs, ub \in {"segv", "ignored"} : Hit(in, ub)
  \/ \E in \in HitInputs : HitNoData(in)
  \/ PropertiesInit
  \/ \E pt \in BOOLEAN : NewPhoton(pt)
  \/ \E flag \in BOOLEAN : Redshift(flag)
  \/ \E flag \in BOOLEAN : HitOpticallyThin(flag)

SpecHit == InitHit /\ [][NextHit]_vars

(***************************************************************************)
(* Properties of the dispatch.                                             *)
(***************************************************************************)
Levels == {"emission_vector", "radiativeQ", "radiativeQ_polar"}
DefaultBits == {default_radiativeQ_polar, default_radiativeQ,
                default_emission_vector}

\* C1: on a type that overrides scalar emission only, the default polarized
\* radiativeQ returns from every reachable __defaultfeatures, with
\* Inu[i] = the type's emission(nuem[i], dsem) and Qnu[i] = Unu[i] = Vnu[i] = 0.
C1_PolarOfScalarOnly ==
  (obj.overrides = {"emission"} /\ call.op = "radiativeQ_polar") =>
    /\ call.res.ok
    /\ \A i \in 1..Len(call.nuem) :
         /\ call.res.I[i] = UserEmission(call.nuem[i], call.dsem)
         /\ call.res.Q[i] = Zero
         /\ call.res.U[i] = Zero
         /\ call.res.V[i] = Zero

C1_Witness ==
  /\ obj.overrides = {"emission"}
  /\ call.op = "radiativeQ_polar"
  /\ call.bits0 = 0
  /\ call.res.ok
  /\ Len(call.nuem) = MaxNu
  /\ call.res.I = [i \in 1..MaxNu |-> UserEmission(MidPoint(i), call.dsem)]

\* C2: whatever subset of the five primitives the type overrides and
\* whatever __defaultfeatures holds, a call of any primitive returns, and the
\* chain of default bodies it nests stays within twice the number of bits
\* plus one.
C2_Terminates ==
  /\ call.res.ok
  /\ call.res.depth <= 2 * Cardinality(DefaultBits) + 1

C2_Witness ==
  /\ obj.overrides = {}
  /\ call.op = "emission"
  /\ call.bits0 = 0
  /\ call.res.ok
  /\ call.res.depth = 2 * Cardinality(DefaultBits) + 1
  /\ obj.defaultfeatures = 7

\* what the one overridden level gives as intensity at nu
LevelI(ov, nu, dsem) ==
  CASE "emission_vector" \in ov -> UserEmissionVectorI(nu, dsem)
    [] "radiativeQ" \in ov -> UserRadiativeQI(nu, dsem)
    [] "radiativeQ_polar" \in ov -> UserPolarI(nu, dsem)

\* what an overridden radiativeQ gives as transmission at nu
LevelTau(ov, nu, dsem) ==
  CASE "radiativeQ" \in ov -> UserRadiativeQTau(nu, dsem)
    [] "radiativeQ_polar" \in ov -> ExpNeg(UserPolarAlphaI(nu, dsem))

\* C3: when the type overrides exactly one of vector emission, unpolarized
\* and polarized radiativeQ, the default scalar emission returns that
\* primitive's intensity, never the uniform one, and the default scalar
\* transmission returns the transmission of an overridden radiativeQ.
C3_ScalarFollowsOverride ==
  Cardinality(obj.overrides \cap Levels) = 1 =>
    /\ (call.op = "emission" /\ "emission" \notin obj.overrides) =>
         /\ call.res.ok
         /\ call.res.val = LevelI(obj.overrides, call.nuem[1], call.dsem)
    /\ (/\ call.op = "transmission"
        /\ "transmission" \notin obj.overrides
        /\ "emission_vector" \notin obj.overrides) =>
         /\ call.res.ok
         /\ call.res.val = LevelTau(obj.overrides, call.nuem[1], call.dsem)

C3_Witness ==
  /\ obj.overrides = {"radiativeQ_polar"}
  /\ call.op = "emission"
  /\ call.bits0 = default_radiativeQ + default_emission_vector
  /\ call.res.val = UserPolarI(call.nuem[1], call.dsem)

\* the outputs of a call, without the bookkeeping
Outputs(r) ==
  [x \in (DOMAIN r) \ {"bits", "depth", "tr", "heap"} |-> r[x]]

\* C4: on a type that overrides at most one primitive, what a primitive
\* returns for given arguments is the same from the current
\* __defaultfeatures as from the initial one, so the n-th call returns what
\* the first did.
C4_SameAsFirstCall ==
  Cardinality(obj.overrides) <= 1 =>
    \A dsem \in DsemChoices :
      /\ \A prim \in {"transmission", "emission"} : \A nu \in NuChoices :
           Outputs(Call(prim, obj, obj.defaultfeatures, <<nu>>, dsem,
                        MaxCallDepth))
           = Outputs(Call(prim, obj, 0, <<nu>>, dsem, MaxCallDepth))
      /\ \A prim \in Levels : \A nus \in NuSeqs :
           Outputs(Call(prim, obj, obj.defaultfeatures, nus, dsem,
                        MaxCallDepth))
           = Outputs(Call(prim, obj, 0, nus, dsem, MaxCallDepth))

C4_Witness ==
  /\ obj.overrides = {"radiativeQ_polar"}
  /\ obj.defaultfeatures = default_radiativeQ + default_emission_vector
  /\ call.op = "transmission"
  /\ call.bits0 = default_radiativeQ + default_emission_vector
  /\ call.res.val = ExpNeg(UserPolarAlphaI(call.nuem[1], call.dsem))

\* C5: on a type that overrides nothing, scalar emission returns dsem when
\* optically thin and 1 when not, and scalar transmission returns 1 when
\* optically thin and 0 when not, from every reachable __defaultfeatures.
C5_UniformFallback ==
  obj.overrides = {} =>
    /\ call.op = "emission" =>
         call.res.val = (IF call.thin THEN call.dsem ELSE One)
    /\ call.op = "transmission" =>
         call.res.val = (IF call.thin THEN One ELSE Zero)

C5_Witness ==
  /\ obj.overrides = {}
  /\ call.op = "emission"
  /\ call.thin
  /\ call.dsem = Rat(2, 1)
  /\ call.bits0 = 0
  /\ call.res.val = Rat(2, 1)

(***************************************************************************)
(* Properties of processHitQuantities.  A call is described by h, the      *)
(* entry it leaves in hit.hist: the object, photon and record it started   *)
(* from and the hit event.                                                 *)
(***************************************************************************)
LastHit == hit.hist[Len(hit.hist)]

\* the last step was a call of processHitQuantities with an Output Record
JustHit == hit.status \in {"returned", "error", "segv", "noreturn"}

\* the frequency and the path length the call h hands to the primitives
HitNuem(h) == Mul(FreqObs, Ggredm1(h.o, h.in))
HitDsem(h) == Mul(Dlambda(h.in), Ggredm1(h.o, h.in))

\* scalar emission x overall transmission on entry x ggred^3 for the call h
Increment(h) ==
  Mul(Mul(Emission(h.o, h.o.defaultfeatures, HitNuem(h), HitDsem(h),
                   MaxCallDepth).val,
          h.ph.transAll),
      Cube(Inv(Ggredm1(h.o, h.in))))

\* did the call h get as far as the intensity step?
PastImpactCoords(h) == h.status # "error"

RECURSIVE SumIncrements(_)
SumIncrements(hs) ==
  IF hs = <<>> THEN Zero
  ELSE Add(SumIncrements(SubSeq(hs, 1, Len(hs) - 1)),
           IF PastImpactCoords(hs[Len(hs)]) THEN Increment(hs[Len(hs)])
           ELSE Zero)

OverallTransmits(log) ==
  {k \in 1..Len(log) : log[k].ev = "transmit" /\ log[k].i = -1}

\* scalar transmission at freqObs*ggredm1 for the call h
HitTransmission(h) ==
  Transmission(h.o, h.o.defaultfeatures, HitNuem(h), HitDsem(h),
               MaxCallDepth).val

\* C7: a call with an Output Record that returns normally updates the
\* photon's overall transmission exactly once, with scalar transmission at
\* freqObs*ggredm1, as the last thing it does to the photon, whatever slots
\* are requested and with or without parallel transport.
C7_OneOverallTransmit ==
  hit.status = "returned" =>
    /\ OverallTransmits(hit.log) = {Len(hit.log)}
    /\ hit.log[Len(hit.log)].v = HitTransmission(LastHit)
    /\ ph.transAll = Mul(LastHit.ph.transAll, HitTransmission(LastHit))

C7_Witness ==
  /\ hit.status = "returned"
  /\ ph.pt
  /\ data.req = Slots
  /\ Len(hit.log) > 1
  /\ OverallTransmits(hit.log) = {Len(hit.log)}
  /\ HitTransmission(LastHit) # One
  /\ ph.transAll = Mul(LastHit.ph.transAll, HitTransmission(LastHit))

\* C8: a call writes only slots that are non-null and goes through no null
\* slot, whatever subset of slots is requested (Stokes Q, U or V without
\* the spectrum included), with or without parallel transport.
C8_NoNullSlotTouched ==
  JustHit => (hit.nullacc = {} /\ hit.wr \subseteq data.req)

\* the state the code reaches: Stokes Q requested, spectrum null, no
\* parallel transport, and the store through data->spectrum is made
C8_NullSpectrumStore ==
  /\ JustHit
  /\ "spectrum" \notin data.req
  /\ "stokesQ" \in data.req
  /\ ~LastHit.ph.pt
  /\ hit.nullacc = {"spectrum"}

\* the snapshot the call h writes
SnapshotOf(h) == CoordObj(h.in) \o CoordPh(h.in, FALSE)

\* C9: with impactcoords requested and 8-component photon states, the
\* snapshot is the one written by the first call made since init (8 object
\* components, then 8 photon components); no later call changes it.
C9_SnapshotOfFirstHit ==
  ( /\ "impactcoords" \in data.req
    /\ hit.hist # <<>>
    /\ \A k \in 1..Len(hit.hist) : ~hit.hist[k].ph.pt )
  => data.impactcoords = SnapshotOf(hit.hist[1])

C9_Witness ==
  /\ "impactcoords" \in data.req
  /\ hit.status = "returned"
  /\ Len(hit.hist) = 2
  /\ \A k \in 1..2 : ~hit.hist[k].ph.pt
  /\ hit.hist[1].in # hit.hist[2].in
  /\ "impactcoords" \notin hit.wr
  /\ data.impactcoords = SnapshotOf(hit.hist[1])
  /\ data.impactcoords # SnapshotOf(hit.hist[2])

\* what C10 says the failing call leaves alone
HitLeftAlone ==
  /\ data.impactcoords = LastHit.data.impactcoords
  /\ data.intensity = LastHit.data.intensity
  /\ data.spectrum = LastHit.data.spectrum
  /\ ph = LastHit.ph

\* C10, as stated: a call with impactcoords requested and a photon state of
\* more than 8 components fails with an error and leaves the
\* impact-coordinate, intensity and spectrum slots and the photon's
\* transmission as they were.
C10_AlwaysFails ==
  ( /\ JustHit
    /\ "impactcoords" \in LastHit.data.req
    /\ LastHit.ph.pt )
  => (hit.status = "error" /\ HitLeftAlone)

\* C10, amended: a call with impactcoords requested, the snapshot not yet
\* written since init (its first element still DBL_MAX) and a photon state
\* of more than 8 components fails with an error and leaves the
\* impact-coordinate, intensity and spectrum slots and the photon's
\* transmission as they were.
C10_FailsWhilePending ==
  ( /\ JustHit
    /\ "impactcoords" \in LastHit.data.req
    /\ LastHit.data.impactcoords[1] = DBL_MAX
    /\ LastHit.ph.pt )
  => (hit.status = "error" /\ HitLeftAlone)

C10_Witness ==
  /\ hit.status = "error"
  /\ LastHit.ph.pt
  /\ LastHit.data.req = Slots
  /\ LastHit.data.impactcoords[1] = DBL_MAX
  /\ data.redshift # LastHit.data.redshift
  /\ hit.log = <<>>
  /\ HitLeftAlone

(***************************************************************************)
(* The step bound.  gg_ is "NULL" or the coordKind() of the attached       *)
(* metric.  A square root that is not a rational is kept as the record     *)
(* [k |-> "sqrt"] of its radicand.  GYOTO_ERROR throws: the call returns   *)
(* nothing and the caller goes on.                                         *)
(***************************************************************************)
\* the integer part of the square root of n >= 0
ISqrt(n) == CHOOSE r \in 0..n : r * r <= n /\ (r + 1) * (r + 1) > n

\* sqrt(q), q a rational >= 0
Sqrt(q) ==
  IF ISqrt(q.n) * ISqrt(q.n) = q.n /\ ISqrt(q.d) * ISqrt(q.d) = q.d
  THEN Rat(ISqrt(q.n), ISqrt(q.d))
  ELSE [k |-> "sqrt", n |-> q.n, d |-> q.d]

\* x * x
Square(x) == IF x.k = "sqrt" THEN Rat(x.n, x.d) ELSE Mul(x, x)

\* x < y for finite x and y, DBL_MAX included; roots are >= 0
Less(x, y) ==
  CASE x.k = "dblmax" -> FALSE
    [] y.k = "dblmax" -> TRUE
    [] x.k = "sqrt" /\ y.k = "sqrt" -> Lt(Square(x), Square(y))
    [] x.k = "sqrt" -> Lt(Zero, y) /\ Lt(Square(x), Square(y))
    [] y.k = "sqrt" -> Lt(x, Zero) \/ Lt(Square(x), Square(y))
    [] OTHER -> Lt(x, y)

\* rr*0.5
Half(rr) ==
  IF rr.k = "sqrt" THEN Sqrt(Rat(rr.n, 4 * rr.d)) ELSE Mul(rr, Rat(1, 2))

\* a slip: the boundary counts as inside
InsideRMax_le(rr, rmax) == ~Less(rmax, rr)

\* deltaMax(): rr<rMax()
InsideRMax(rr, rmax) == Less(rr, rmax)

\* a slip: every coordinate kind is taken as spherical
CoordKindHandled_any(kind) == TRUE

\* deltaMax(): the cases of the switch
CoordKindHandled(kind) == kind \in {"SPHERICAL", "CARTESIAN"}

\* deltaMax(): rr, coord being coord[1..3]
RadialDistance(kind, coord) ==
  IF kind = "CARTESIAN"
  THEN Sqrt(Add(Add(Mul(coord[1], coord[1]), Mul(coord[2], coord[2])),
                Mul(coord[3], coord[3])))
  ELSE coord[1]

\* deltaMax(): h1max
StepBound(o, rr) ==
  IF InsideRMax(rr, o.rmax_) THEN o.deltamaxinsidermax_ ELSE Half(rr)

\* Generic::deltaMax(double coord[8])
DeltaMax(o, coord) ==
  IF o.gg_ = "NULL"
  THEN [ok |-> FALSE, val |-> NaN, error |-> "Please set metric"]
  ELSE IF ~CoordKindHandled(o.gg_)
  THEN [ok |-> FALSE, val |-> NaN, error |-> "Incompatible coordinate kind"]
  ELSE [ok |-> TRUE, val |-> StepBound(o, RadialDistance(o.gg_, coord)),
        error |-> ""]

\* Generic::Generic(double radmax)
NewGenericRadmax(radmax) == [NewGeneric({}) EXCEPT !.rmax_ = radmax]

\* doubles handed to rMax(double) and Generic(double)
RMaxChoices == {Rat(10, 1), One, Rat(0 - 1, 1)}
\* doubles handed to deltaMaxInsideRMax(double)
DeltaMaxChoices == {Rat(1, 2), Rat(2, 1)}
\* what metric() can attach: nothing, or a metric of some coordKind()
MetricChoices == {"NULL", "SPHERICAL", "CARTESIAN", "UNSPECIFIED"}
\* coord[1..3] of the points deltaMax is asked about
CoordChoices ==
  {<<Rat(5, 1), One, Zero>>, <<Rat(10, 1), Zero, Zero>>,
   <<Rat(20, 1), One, Zero>>, <<Rat(3, 1), Rat(4, 1), Zero>>,
   <<Rat(6, 1), Zero, Rat(8, 1)>>, <<Rat(12, 1), Rat(16, 1), Zero>>,
   <<One, One, Zero>>}

InitStep ==
  /\ obj \in {NewGeneric({})} \cup {NewGenericRadmax(v) : v \in RMaxChoices}
  /\ call = [NoCall EXCEPT !.op = "Generic"]
  /\ ph = NoPhoton
  /\ data = NoData
  /\ hit = NoHit

\* Generic::rMax(double)
SetRMax(val) ==
  /\ obj.rmax_ # val
  /\ obj' = [obj EXCEPT !.rmax_ = val]
  /\ call' = [NoCall EXCEPT !.op = "rMax"]
  /\ UNCHANGED <<ph, data, hit>>

\* Generic::deltaMaxInsideRMax(double)
SetDeltaMaxInsideRMax(val) ==
  /\ obj.deltamaxinsidermax_ # val
  /\ obj' = [obj EXCEPT !.deltamaxinsidermax_ = val]
  /\ call' = [NoCall EXCEPT !.op = "deltaMaxInsideRMax"]
  /\ UNCHANGED <<ph, data, hit>>

\* Generic::metric(SmartPointer<Metric::Generic>)
SetMetric(gg) ==
  /\ obj.gg_ # gg
  /\ obj' = [obj EXCEPT !.gg_ = gg]
  /\ call' = [NoCall EXCEPT !.op = "metric"]
  /\ UNCHANGED <<ph, data, hit>>

\* a call of deltaMax(coord)
CallDeltaMax(coord) ==
  /\ call' = [op |-> "deltaMax", nuem |-> coord, dsem |-> Zero,
              bits0 |-> obj.defaultfeatures, thin |-> obj.flag_radtransf_,
              res |-> DeltaMax(obj, coord), before |-> obj]
  /\ UNCHANGED <<obj, ph, data, hit>>

NextStep ==
  \/ \E val \in RMaxChoices : SetRMax(val)
  \/ \E val \in DeltaMaxChoices : SetDeltaMaxInsideRMax(val)
  \/ \E gg \in MetricChoices : SetMetric(gg)
  \/ \E coord \in CoordChoices : CallDeltaMax(coord)

SpecStep == InitStep /\ [][NextStep]_vars

(***************************************************************************)
(* Threads sharing one object.  Each thread runs a primitive call step by  *)
(* step; a frame is a default body in progress: its primitive, where it is *)
(* (load and store are the two halves of __defaultfeatures |= bit, test    *)
(* the branch on the bits, recheck the second test of the unpolarized      *)
(* radiativeQ, tloop its loop over transmission, ret the return) and the   *)
(* value it loaded.  Arrays have one frequency.  call holds the threads:   *)
(* whether the callers serialize their calls, the stacks, the calls made   *)
(* and the bits that a store has cleared.                                  *)
(***************************************************************************)
Threads == {"t1", "t2"}

Frame(prim, pc) == [prim |-> prim, pc |-> pc, reg |-> 0]

\* where a default body starts: the three that mark start with the |=
EntryPc(prim) == IF prim \in {"emission_vector", "radiativeQ",
                              "radiativeQ_polar"}
                 THEN "load" ELSE "test"

\* __defaultfeatures |= bit, from the value loaded
MarkOf(prim, reg) ==
  CASE prim = "emission_vector" -> EmissionVectorMark(reg)
    [] prim = "radiativeQ" -> RadiativeQMark(reg)
    [] prim = "radiativeQ_polar" -> RadiativeQPolarMark(reg)

RECURSIVE Unwind(_)
\* the frames that have only their return left are popped
Unwind(stk) ==
  IF stk # <<>> /\ stk[Len(stk)].pc = "ret"
  THEN Unwind(SubSeq(stk, 1, Len(stk) - 1))
  ELSE stk

\* the top frame goes on to pc
Goto(stk, pc) == [stk EXCEPT ![Len(stk)].pc = pc]

\* the top frame calls prim and has pc left to do: the type's own code
\* returns at once, a default body gets a frame
Enter(o, stk, pc, prim) ==
  IF prim \in o.overrides THEN Unwind(Goto(stk, pc))
  ELSE Append(Goto(stk, pc), Frame(prim, EntryPc(prim)))

\* the frame returns
Leave(stk) == Unwind(Goto(stk, "ret"))

\* the branch the top frame f takes on the bits it reads, bits
Branched(o, stk, f, bits) ==
  CASE f.pc = "test" /\ f.prim = "transmission" ->
         IF TransmissionTriesRadiativeQ(bits)
         THEN Enter(o, stk, "ret", "radiativeQ") ELSE Leave(stk)
    [] f.pc = "test" /\ f.prim = "emission" ->
         IF EmissionBranch(bits) = "uniform" THEN Leave(stk)
         ELSE Enter(o, stk, "ret", EmissionBranch(bits))
    [] f.pc = "test" /\ f.prim = "emission_vector" ->
         Enter(o, stk, "ret", EmissionVectorBranch(bits))
    [] f.pc = "test" /\ f.prim = "radiativeQ" ->
         IF RadiativeQTriesPolar(bits)
         THEN Enter(o, stk, "recheck", "radiativeQ_polar")
         ELSE Enter(o, stk, "tloop", "emission_vector")
    [] f.pc = "test" /\ f.prim = "radiativeQ_polar" ->
         Enter(o, stk, "ret", "radiativeQ")
    [] f.pc = "recheck" ->
         IF RadiativeQPolarAnswered(bits) THEN Leave(stk)
         ELSE Enter(o, stk, "ret", "transmission")
    [] f.pc = "tloop" -> Enter(o, stk, "ret", "transmission")

\* the types the threads share an instance of: any type when the callers
\* serialize, two whose chains of defaults are short when they do not
ThreadObjects(serialized) ==
  IF serialized THEN SUBSET Prims
  ELSE {{"radiativeQ"}, {"radiativeQ_polar"}}

NoThreads(serialized) ==
  [op |-> "threads", serialized |-> serialized,
   stack |-> [t \in Threads |-> <<>>], calls |-> [t \in Threads |-> 0],
   lost |-> {}]

InitThreads ==
  /\ \E serialized \in BOOLEAN :
       /\ obj \in {NewGeneric(ov) : ov \in ThreadObjects(serialized)}
       /\ call = NoThreads(serialized)
  /\ ph = NoPhoton
  /\ data = NoData
  /\ hit = NoHit

\* the thread t may run: callers that serialize let one call in at a time
MayRun(t) ==
  call.serialized => \A u \in Threads \ {t} : call.stack[u] = <<>>

Top(t) == call.stack[t][Len(call.stack[t])]

\* the thread t calls the primitive prim, which the type does not override
StartCall(t, prim) ==
  /\ MayRun(t)
  /\ call.stack[t] = <<>>
  /\ call.calls[t] < MaxThreadCalls
  /\ prim \notin obj.overrides
  /\ call' = [call EXCEPT !.stack[t] = <<Frame(prim, EntryPc(prim))>>,
                          !.calls[t] = @ + 1]
  /\ UNCHANGED <<obj, ph, data, hit>>

\* the read of __defaultfeatures |= bit
Load(t) ==
  /\ MayRun(t)
  /\ call.stack[t] # <<>>
  /\ Top(t).pc = "load"
  /\ call' = [call EXCEPT !.stack[t][Len(call.stack[t])] =
                            [@ EXCEPT !.reg = obj.defaultfeatures,
                                      !.pc = "store"]]
  /\ UNCHANGED <<obj, ph, data, hit>>

\* the write of __defaultfeatures |= bit
Store(t) ==
  /\ MayRun(t)
  /\ call.stack[t] # <<>>
  /\ Top(t).pc = "store"
  /\ obj' = Marked(MarkOf(Top(t).prim, Top(t).reg))
  /\ call' = [call EXCEPT
                !.stack[t] = Goto(@, "test"),
                !.lost = @ \cup {b \in {default_radiativeQ_polar,
                                        default_radiativeQ,
                                        default_emission_vector} :
                                   /\ Has(obj.defaultfeatures, b)
                                   /\ ~Has(MarkOf(Top(t).prim, Top(t).reg),
                                           b)}]
  /\ UNCHANGED <<ph, data, hit>>

\* a test of the bits and the call or the return it leads to
Branch(t) ==
  /\ MayRun(t)
  /\ call.stack[t] # <<>>
  /\ Top(t).pc \in {"test", "recheck", "tloop"}
  /\ Len(call.stack[t]) < MaxStack
  /\ call' = [call EXCEPT !.stack[t] =
                            Branched(obj, @, Top(t), obj.defaultfeatures)]
  /\ UNCHANGED <<obj, ph, data, hit>>

NextThreads ==
  \/ \E t \in Threads, prim \in Prims : StartCall(t, prim)
  \/ \E t \in Threads : Load(t)
  \/ \E t \in Threads : Store(t)
  \/ \E t \in Threads : Branch(t)

SpecThreads == InitThreads /\ [][NextThreads]_vars

\* v is a number of [0,1]
InUnit(v) == IsRat(v) /\ ~Lt(v, Zero) /\ ~Lt(One, v)

\* y <= x, for numbers
NotAbove(y, x) == IsRat(x) /\ IsRat(y) /\ ~Lt(x, y)

\* an object that overrides nothing and is optically thick
DefaultThick(o) == o.overrides = {} /\ ~o.flag_radtransf_

IntegrateNus == {Boundary(j) : j \in 1..(MaxNu + 1)}
\* dsem handed to integrateEmission: a double of any sign
IntegrateDsems == {Rat(0 - 1, 1), Zero, Rat(1, 2), Rat(2, 1)}

CallIntegrateEmission(nu1, nu2, dsem) ==
  /\ Alive
  /\ LET r == IntegrateEmission(obj, obj.defaultfeatures, nu1, nu2, dsem)
     IN  /\ obj' = Marked(r.bits)
         /\ call' = [op |-> "integrateEmission", nuem |-> <<nu1, nu2>>,
                     dsem |-> dsem, bits0 |-> obj.defaultfeatures,
                     thin |-> obj.flag_radtransf_, res |-> r]
  /\ UNCHANGED <<ph, data, hit>>

NextIntegrate ==
  \/ \E nu1 \in IntegrateNus, nu2 \in IntegrateNus, dsem \in IntegrateDsems :
       CallIntegrateEmission(nu1, nu2, dsem)
  \/ \E flag \in BOOLEAN : OpticallyThin(flag)

InitIntegrate ==
  /\ obj \in {NewGeneric(ov) : ov \in HitObjects}
  /\ call = NoCall
  /\ ph = NoPhoton
  /\ data = NoData
  /\ hit = NoHit

SpecIntegrate == InitIntegrate /\ [][NextIntegrate]_vars

\* the object of the last call, as it was when the call was made
CallObject ==
  [obj EXCEPT !.defaultfeatures = call.bits0, !.flag_radtransf_ = call.thin]

\* the last call was integrateEmission on an object whose scalar emission
\* is the uniform one of Generic: the same value at every frequency
IntegratedConstant ==
  /\ call.op = "integrateEmission"
  /\ obj.overrides \cap {"emission", "emission_vector", "radiativeQ",
                         "radiativeQ_polar"} = {}

\* the constant c of the last call
EmissionConstant == UniformEmission(CallObject, call.dsem)

\* C12: integrateEmission over a constant emission c of any sign returns,
\* and returns c * |nu2 - nu1|.
C12_ConstantIntegral ==
  IntegratedConstant =>
    /\ call.res.ok
    /\ call.res.Icur = Mul(EmissionConstant,
                           Fabs(Sub(call.nuem[2], call.nuem[1])))

\* a call with c < 0 whose refinement loop is still running
C12_StillRefining ==
  /\ IntegratedConstant
  /\ Lt(EmissionConstant, Zero)
  /\ call.nuem[1] # call.nuem[2]
  /\ ~call.res.ok
  /\ call.res.rounds = MaxRefine
  /\ call.res.Icur = Mul(EmissionConstant,
                         Fabs(Sub(call.nuem[2], call.nuem[1])))

\* with c >= 0 the call returns c * |nu2 - nu1| after one turn of the loop
C12_NonNegativeReturns ==
  (IntegratedConstant /\ ~Lt(EmissionConstant, Zero)) =>
    /\ call.res.ok
    /\ call.res.rounds = 1
    /\ call.res.Icur = Mul(EmissionConstant,
                           Fabs(Sub(call.nuem[2], call.nuem[1])))

\* the last call was deltaMax(coord) and it returned a step bound
DeltaMaxReturned == call.op = "deltaMax" /\ call.res.ok

\* x^2+y^2+z^2 of the point of the last deltaMax call
SumOfSquares ==
  Add(Add(Mul(call.nuem[1], call.nuem[1]), Mul(call.nuem[2], call.nuem[2])),
      Mul(call.nuem[3], call.nuem[3]))

\* rr < rMax for the last deltaMax call, from the point and the attributes
PointInside ==
  LET rmax == call.before.rmax_
  IN  IF rmax = DBL_MAX THEN TRUE
      ELSE IF call.before.gg_ = "SPHERICAL" THEN Lt(call.nuem[1], rmax)
      ELSE Lt(Zero, rmax) /\ Lt(SumOfSquares, Mul(rmax, rmax))

\* v is rr/2 for the last deltaMax call
HalfOfRadius(v) ==
  IF call.before.gg_ = "SPHERICAL" THEN Mul(v, Rat(2, 1)) = call.nuem[1]
  ELSE /\ Mul(Rat(4, 1), Square(v)) = SumOfSquares
       /\ (v.k = "sqrt" \/ ~Lt(v, Zero))

\* C13: with a metric attached, deltaMax(coord) returns deltaMaxInsideRMax
\* when rr < rMax and rr/2 when rr >= rMax, rr being coord[1] in spherical
\* coordinates and sqrt(x^2+y^2+z^2) in Cartesian ones; with rMax = 10 and
\* deltaMaxInsideRMax = 1/2 in spherical coordinates it returns 1/2 at
\* radius 5, 5 at radius 10 and 10 at radius 20.
C13_StepBound ==
  DeltaMaxReturned =>
    /\ PointInside => call.res.val = call.before.deltamaxinsidermax_
    /\ ~PointInside => HalfOfRadius(call.res.val)
    /\ (/\ call.before.gg_ = "SPHERICAL"
        /\ call.before.rmax_ = Rat(10, 1)
        /\ call.before.deltamaxinsidermax_ = Rat(1, 2)) =>
         /\ call.nuem[1] = Rat(5, 1) => call.res.val = Rat(1, 2)
         /\ call.nuem[1] = Rat(10, 1) => call.res.val = Rat(5, 1)
         /\ call.nuem[1] = Rat(20, 1) => call.res.val = Rat(10, 1)

C13_Witness ==
  /\ DeltaMaxReturned
  /\ call.before.gg_ = "SPHERICAL"
  /\ call.before.rmax_ = Rat(10, 1)
  /\ call.before.deltamaxinsidermax_ = Rat(1, 2)
  /\ call.nuem[1] = Rat(10, 1)
  /\ call.res.val = Rat(5, 1)

\* C14: deltaMax raises an error and returns no step bound when no metric
\* is attached and when the metric's coordinate kind is neither spherical
\* nor Cartesian; the object is as it was before the call.
C14_FailsWithoutUsableMetric ==
  (call.op = "deltaMax"
     /\ call.before.gg_ \notin {"SPHERICAL", "CARTESIAN"}) =>
    /\ ~call.res.ok
    /\ call.res.error # ""
    /\ obj = call.before

C14_Witness ==
  /\ call.op = "deltaMax"
  /\ call.before.gg_ = "UNSPECIFIED"
  /\ ~call.res.ok
  /\ call.before.rmax_ # DBL_MAX
  /\ obj = call.before

\* C15: rMax is never negative.
C15_RMaxNonNegative == ~Less(obj.rmax_, Zero)

\* a negative rMax, and deltaMax answering with it in place
C15_NegativeRMax ==
  /\ Less(obj.rmax_, Zero)
  /\ DeltaMaxReturned
  /\ call.before = obj

\* rmax_ is DBL_MAX after Generic() and changes only in rMax(double)
C15_DefaultUntilSet ==
  [][obj'.rmax_ # obj.rmax_ => call'.op = "rMax"]_vars

\* the call h was made with redshift tracking disabled and returned
NoRedshiftHit == hit.status = "returned" /\ LastHit.o.noredshift_

\* C16: after redshift(false), processHitQuantities takes ggredm1 = 1
\* whatever the scalar product of the 4-velocities is: the redshift slot
\* receives 1, emission and transmission are evaluated at freqObs with
\* dsem = dt/tdot, and the intensity grows by emission x overall
\* transmission, without any redshift factor.
C16_NoRedshift ==
  NoRedshiftHit =>
    /\ "redshift" \in data.req => data.redshift = One
    /\ "intensity" \in data.req =>
         Sub(data.intensity, LastHit.data.intensity)
           = Mul(Emission(LastHit.o, LastHit.o.defaultfeatures, FreqObs,
                          Mul(LastHit.in.dt, Inv(LastHit.in.tdot)),
                          MaxCallDepth).val,
                 LastHit.ph.transAll)
    /\ hit.log[Len(hit.log)].v
         = Transmission(LastHit.o, LastHit.o.defaultfeatures, FreqObs,
                        Mul(LastHit.in.dt, Inv(LastHit.in.tdot)),
                        MaxCallDepth).val

C16_Witness ==
  /\ NoRedshiftHit
  /\ {"redshift", "intensity"} \subseteq data.req
  /\ Neg(LastHit.in.sprod) # One
  /\ LastHit.in.dt # LastHit.in.tdot
  /\ "redshift" \in hit.wr
  /\ data.redshift = One
  /\ LastHit.o.flag_radtransf_
  /\ data.intensity # LastHit.data.intensity

\* the primitive whose default body sets the bit b
BitPrim(b) ==
  CASE b = default_radiativeQ_polar -> "radiativeQ_polar"
    [] b = default_radiativeQ -> "radiativeQ"
    [] b = default_emission_vector -> "emission_vector"

\* C17: over any sequence of primitive calls on one object each bit of
\* __defaultfeatures is kept once set; a bit that is set belongs to a
\* primitive the type does not override, and a bit becomes set only in a
\* call during which the default body of its own primitive ran.
C17_BitsOnlySet ==
  [][\A b \in DefaultBits :
       /\ Has(obj.defaultfeatures, b) => Has(obj'.defaultfeatures, b)
       /\ Has(obj'.defaultfeatures, b) => BitPrim(b) \notin obj'.overrides
       /\ (~Has(obj.defaultfeatures, b) /\ Has(obj'.defaultfeatures, b)) =>
            \/ call'.op = BitPrim(b)
            \/ \E e \in call'.res.tr : e.to = BitPrim(b)]_vars

\* a later call adds a bit to those an earlier call has set
C17_Witness ==
  /\ call.op # "none"
  /\ call.bits0 # 0
  /\ call.bits0 # obj.defaultfeatures
  /\ \A b \in DefaultBits :
       Has(call.bits0, b) => Has(obj.defaultfeatures, b)
  /\ obj.overrides # {}

\* the bit of the level prim
PrimBit(prim) ==
  CASE prim = "radiativeQ_polar" -> default_radiativeQ_polar
    [] prim = "radiativeQ" -> default_radiativeQ
    [] prim = "emission_vector" -> default_emission_vector

\* the calls default bodies made to a level whose bit was already set
CalledAgain ==
  {e \in call.res.tr : e.to \in Levels /\ Has(e.bits, PrimBit(e.to))}

\* C18 as stated: once the bit of a level is set, no default body of
\* another primitive calls that level again.
C18_NeverCalledAgain == CalledAgain = {}

\* C18: the delegations that the bits stop.  Scalar emission calls vector
\* emission only while the vector bit is clear; vector emission calls the
\* unpolarized radiativeQ only while the unpolarized bit is clear; nothing
\* calls the polarized radiativeQ once the polarized bit is set; the scalar
\* primitives call the unpolarized radiativeQ only while the unpolarized or
\* the polarized bit is clear.  Calls to a level whose bit is set are made
\* only by the polarized default (to the unpolarized one), by the
\* unpolarized default (to vector emission) and by the scalar defaults (to
\* the unpolarized one, the polarized bit being clear).
C18_GuardedDelegations ==
  /\ \A e \in call.res.tr :
       /\ (e.from = "emission" /\ e.to = "emission_vector") =>
            ~Has(e.bits, default_emission_vector)
       /\ (e.from = "emission_vector" /\ e.to = "radiativeQ") =>
            ~Has(e.bits, default_radiativeQ)
       /\ e.to = "radiativeQ_polar" =>
            ~Has(e.bits, default_radiativeQ_polar)
       /\ (e.from \in {"emission", "transmission"} /\ e.to = "radiativeQ") =>
            ~(Has(e.bits, default_radiativeQ)
                /\ Has(e.bits, default_radiativeQ_polar))
  /\ \A e \in CalledAgain :
       \/ e.from = "radiativeQ_polar" /\ e.to = "radiativeQ"
       \/ e.from = "radiativeQ" /\ e.to = "emission_vector"
       \/ /\ e.from \in {"emission", "transmission"}
          /\ e.to = "radiativeQ"
          /\ ~Has(e.bits, default_radiativeQ_polar)

\* a type that overrides the polarized radiativeQ only: the unpolarized bit
\* is set, and a later transmission() calls the unpolarized default again
C18_Witness ==
  /\ obj.overrides = {"radiativeQ_polar"}
  /\ call.op = "transmission"
  /\ Has(call.bits0, default_radiativeQ)
  /\ Edge("transmission", "radiativeQ", call.bits0) \in call.res.tr
  /\ Edge("radiativeQ", "radiativeQ_polar", call.bits0) \in call.res.tr
  /\ call.res.val = ExpNeg(UserPolarAlphaI(call.nuem[1], call.dsem))

\* the four levels that give an intensity
EmissionLevels == Levels \cup {"emission"}

\* the intensity the type's own code of level gives at nu
UserIntensity(level, nu, dsem) ==
  CASE level = "emission" -> UserEmission(nu, dsem)
    [] level = "emission_vector" -> UserEmissionVectorI(nu, dsem)
    [] level = "radiativeQ" -> UserRadiativeQI(nu, dsem)
    [] level = "radiativeQ_polar" -> UserPolarI(nu, dsem)

\* the transmission the type's own radiativeQ of level gives at nu
UserTau(level, nu, dsem) ==
  CASE level = "radiativeQ" -> UserRadiativeQTau(nu, dsem)
    [] level = "radiativeQ_polar" -> ExpNeg(UserPolarAlphaI(nu, dsem))

\* the first level of chain that the type overrides
FirstOverridden(chain, ov) ==
  chain[CHOOSE i \in 1..Len(chain) :
          chain[i] \in ov /\ \A j \in 1..(i - 1) : chain[j] \notin ov]

\* most detailed first, as the claim has it
DetailOrder(op) ==
  SelectSeq(<<"radiativeQ_polar", "radiativeQ", "emission_vector",
              "emission">>, LAMBDA l : l # op)

\* the order in which the default body of op asks the other levels
AskOrder(op) ==
  CASE op = "emission" ->
         <<"emission_vector", "radiativeQ", "radiativeQ_polar">>
    [] op = "emission_vector" ->
         <<"radiativeQ", "radiativeQ_polar", "emission">>
    [] op = "radiativeQ" ->
         <<"radiativeQ_polar", "emission_vector", "emission">>
    [] op = "radiativeQ_polar" ->
         <<"radiativeQ", "emission_vector", "emission">>

\* the last call ran the default body of a level on a type that overrides
\* two or more of the other levels
DefaultOverTwo ==
  /\ call.op \in EmissionLevels
  /\ call.op \notin obj.overrides
  /\ Cardinality(obj.overrides \cap EmissionLevels) >= 2

\* the last call ran the default transmission on a type that overrides
\* both radiativeQ
TransmissionOverTwo ==
  /\ call.op = "transmission"
  /\ call.op \notin obj.overrides
  /\ {"radiativeQ", "radiativeQ_polar"} \subseteq obj.overrides

\* the intensities of the last call are those of the type's own level
AnsweredBy(level) ==
  IF call.op = "emission"
  THEN call.res.val = UserIntensity(level, call.nuem[1], call.dsem)
  ELSE \A i \in 1..Len(call.nuem) :
         call.res.I[i] = UserIntensity(level, call.nuem[i], call.dsem)

\* C19 as stated: the most detailed overridden level answers, the
\* polarized radiativeQ before the unpolarized one, then vector emission,
\* then scalar emission.
C19_MostDetailedFirst ==
  /\ DefaultOverTwo =>
       AnsweredBy(FirstOverridden(DetailOrder(call.op), obj.overrides))
  /\ TransmissionOverTwo =>
       call.res.val = UserTau("radiativeQ_polar", call.nuem[1], call.dsem)

\* C19: the default body of a primitive gets its answer from the first
\* overridden level in the order in which it asks: scalar emission asks
\* vector emission, then the unpolarized, then the polarized radiativeQ;
\* vector emission asks the unpolarized, then the polarized radiativeQ,
\* then scalar emission; the unpolarized radiativeQ asks the polarized one,
\* then vector, then scalar emission; the polarized radiativeQ asks the
\* unpolarized one, then vector, then scalar emission; transmission asks
\* the unpolarized radiativeQ before the polarized one.
C19_NearestLevelFirst ==
  /\ DefaultOverTwo =>
       /\ call.res.ok
       /\ AnsweredBy(FirstOverridden(AskOrder(call.op), obj.overrides))
  /\ TransmissionOverTwo =>
       /\ call.res.ok
       /\ call.res.val = UserTau("radiativeQ", call.nuem[1], call.dsem)

C19_Witness ==
  /\ DefaultOverTwo
  /\ obj.overrides = {"emission_vector", "radiativeQ_polar"}
  /\ call.op = "emission"
  /\ call.bits0 # 0
  /\ call.res.val = UserEmissionVectorI(call.nuem[1], call.dsem)
  /\ call.res.val # UserPolarI(call.nuem[1], call.dsem)

(***************************************************************************)
(* Hits on Output Records that hold every combination of the binspectrum,  *)
(* spectrum and Stokes slots.                                              *)
(***************************************************************************)
ChannelReqs ==
  {b \cup sp \cup st :
     b \in {{}, {"binspectrum"}}, sp \in {{}, {"spectrum"}},
     st \in {{}, {"stokesQ"}, {"stokesQ", "stokesU", "stokesV"}}}

InitChannels ==
  /\ obj \in {[NewGeneric(ov) EXCEPT !.gg_ = "SPHERICAL"] : ov \in HitObjects}
  /\ call = NoCall
  /\ ph = FreshPhoton(FALSE, MaxNu)
  /\ data \in {PropertiesAfterInit(req, MaxNu) : req \in ChannelReqs}
  /\ hit = NoHit

SpecChannels == InitChannels /\ [][NextHit]_vars

\* how many times the calls logged in log updated the transmission of
\* channel i: ph->transmit(i, ...) and ph->transfer(...), which updates all
ChannelUpdates(log, i) ==
  Cardinality({k \in 1..Len(log) :
                 \/ log[k].ev = "transmit" /\ log[k].i = i
                 \/ log[k].ev = "transfer"})

\* C20: in one processHitQuantities call each channel's transmission on the
\* photon is updated at most once, whatever combination of the binspectrum,
\* spectrum and Stokes slots is requested and for both photon kinds.
C20_ChannelOnce ==
  hit.status = "returned" =>
    \A i \in 0..(ph.nbnuobs - 1) : ChannelUpdates(hit.log, i) <= 1

\* binspectrum and a Stokes slot without spectrum, a photon with parallel
\* transport: each channel is updated by the binspectrum step and again by
\* ph->transfer
C20_TwiceTransported ==
  /\ hit.status = "returned"
  /\ ph.pt
  /\ hit.nullacc = {}
  /\ {"binspectrum", "stokesQ"} \subseteq data.req
  /\ "spectrum" \notin data.req
  /\ \A i \in 0..(ph.nbnuobs - 1) : ChannelUpdates(hit.log, i) = 2

\* the same Output Record, a photon without parallel transport, the store
\* through the null spectrum slot not stopping the call: each channel is
\* updated by the binspectrum step and again by the unpolarized loop
C20_TwiceTransmitted ==
  /\ hit.status = "returned"
  /\ ~ph.pt
  /\ {"binspectrum", "stokesQ"} \subseteq data.req
  /\ "spectrum" \notin data.req
  /\ \A i \in 0..(ph.nbnuobs - 1) :
       /\ ChannelUpdates(hit.log, i) = 2
       /\ ph.trans[i + 1]
            = Mul(LastHit.ph.trans[i + 1],
                  Mul(Transmission(LastHit.o, LastHit.o.defaultfeatures,
                                   Mul(MidPoint(i + 1),
                                       Ggredm1(LastHit.o, LastHit.in)),
                                   HitDsem(LastHit), MaxCallDepth).val,
                      RadiativeQ(LastHit.o, LastHit.o.defaultfeatures,
                                 <<Mul(MidPoint(i + 1),
                                       Ggredm1(LastHit.o, LastHit.in))>>,
                                 HitDsem(LastHit), MaxCallDepth).Tau[1]))

\* with the spectrum slot requested, or without any Stokes slot, each
\* channel is updated at most once
C20_OnceOtherwise ==
  (hit.status = "returned"
     /\ ("spectrum" \in data.req \/ "binspectrum" \notin data.req
           \/ ~SpectralRequested(data))) =>
    \A i \in 0..(ph.nbnuobs - 1) : ChannelUpdates(hit.log, i) <= 1

\* C21: when a processHitQuantities call returns, normally or through the
\* impact-coordinates error, it has released as many scratch arrays as it
\* has allocated, the default bodies of vector emission and of the two
\* radiativeQ that ran during the call included, each of them having
\* released its own before it returned; the error exit is taken before
\* anything is allocated.
C21_ScratchReleased ==
  hit.status \in {"returned", "error"} =>
    /\ hit.heap.del = hit.heap.new
    /\ hit.heap.bal
    /\ hit.status = "error" => hit.heap.new = 0

\* a call that went through the binspectrum and the polarized blocks and
\* through default bodies that allocate
C21_Witness ==
  /\ hit.status = "returned"
  /\ LastHit.ph.pt
  /\ LastHit.o.overrides = {}
  /\ {"binspectrum", "spectrum"} \subseteq data.req
  /\ hit.heap.new > 2 + 12
  /\ hit.heap.del = hit.heap.new
  /\ hit.heap.bal


\* the threads have made their calls and all have returned
AllReturned ==
  \A t \in Threads : call.stack[t] = <<>> /\ call.calls[t] = MaxThreadCalls

\* C22: when the callers serialize their first-touch calls on the shared
\* object, every __defaultfeatures |= bit writes back the value the object
\* still holds plus its bit, and no store ever clears a bit that was set;
\* a bit is cleared only when the calls of the two threads overlap.
C22_SerializedKeepsBits ==
  call.serialized =>
    /\ call.lost = {}
    /\ \A t \in Threads :
         call.stack[t] # <<>> /\ Top(t).pc = "store" =>
           Top(t).reg = obj.defaultfeatures

\* without serialization both calls have returned, a store of one thread has
\* cleared a bit the other had set, and the bit is still missing
C22_Witness ==
  /\ ~call.serialized
  /\ AllReturned
  /\ \E b \in call.lost : ~Has(obj.defaultfeatures, b)

====
